---- MODULE Spec2Model ----
(***************************************************************************)
(* Verification model of the pokerGTO postflop core: the card model, the   *)
(* hand evaluator, hand comparison, the board texture analyzer, the        *)
(* recommendation table and the equity calculator.                         *)
(*                                                                         *)
(* Real-valued scores are kept exact as integers:                          *)
(*   strength is counted in units of 1/1400 (every strength in the code is *)
(*   a/100 + (r/14) * b/100), wetness in units of 1/6000 (every wetness    *)
(*   term is a/100 or (k/n) * 15/100 with n in 3..5).  The sums are exact; *)
(*   the rounding of IEEE doubles is not modelled.  The quick equity       *)
(*   estimate is counted in units of 1/140000, a Monte Carlo equity and    *)
(*   pot odds are kept as a fraction [num, den].                           *)
(***************************************************************************)
EXTENDS Integers, Sequences, FiniteSets, TLC

VARIABLES holeCards, board, evaluation, villainHand, comparison, texture

\* the quick equity estimate shown with the evaluation
VARIABLES estimate

\* expandRange: its arguments and its result
VARIABLES villainRange, blockers, expandedRange

\* a call of the equity calculator: the requested iterations, the function
\* called, the function whose body runs, the place in it, the loop index,
\* the counters, the last runout and the result
VARIABLES iterations, entry, running, pc, iter, wins, ties, losses, validSamples, runout, equityResult

\* a call of getPostflopRecommendation: its arguments and its result
VARIABLES handStrength, position, street, facingBet, recommendation

\* a call of calculatePotOdds: its arguments and its result
VARIABLES potSize, betToCall, potOdds, callEquity, callResult

\* shuffleDeck: the deck given, the array being shuffled, the loop index i,
\* the values of j drawn so far, and the position in the function
VARIABLES shuffleInput, shuffledDeck, shuffleIndex, shuffleChoices, shufflePc

\* the state of the PostflopTrainer component besides street, position,
\* facingBet and potSize, and the handler that dealt the scenario
VARIABLES scenario, lastResult, stats, showAnalysis, showBetSizing, pendingAction, villainBetSize, heroStack, villainStack, dealtBy

rangeVars == <<villainRange, blockers, expandedRange>>

equityVars == <<iterations, entry, running, pc, iter, wins, ties, losses, validSamples, runout, equityResult>>

recVars == <<handStrength, position, street, facingBet, recommendation>>

oddsVars == <<potSize, betToCall, potOdds, callEquity, callResult>>

shuffleVars == <<shuffleInput, shuffledDeck, shuffleIndex, shuffleChoices, shufflePc>>

trainerVars == <<scenario, lastResult, stats, showAnalysis, showBetSizing, pendingAction, villainBetSize, heroStack, villainStack, dealtBy>>

handVars == <<holeCards, board, evaluation, villainHand, comparison, texture, estimate>>

vars == <<holeCards, board, evaluation, villainHand, comparison, texture, estimate, rangeVars, equityVars, recVars, oddsVars, shuffleVars, trainerVars>>

(***************************************************************************)
(* Bounds of the explored inputs.                                          *)
(***************************************************************************)
\* ranks 2 .. 1+FullSuitRanks are present in all four suits of the explored
\* deck, the other ranks only in the first suit
FullSuitRanks == 2

\* the boards given to the analyzer hold the ranks 2 .. 1+BoardLowRanks and
\* Q, K, A, in all four suits
BoardLowRanks == 5

\* the hands compared hold the CompareRanks highest ranks, in two suits
CompareRanks == 5

\* the boards given to the recommendation hold the ranks 2 .. 1+RecLowRanks
\* and K, A, in the first three suits
RecLowRanks == 4

\* the equity calculator draws from the EquityDeckSize highest cards of the
\* deck and is asked for up to MaxIterations iterations
EquityDeckSize == 9

MaxIterations == 2

\* range tokens and blockers are made of the RangeRanks highest ranks; a
\* range holds up to MaxRangeTokens tokens, up to MaxBlockers cards block
RangeRanks == 2

MaxRangeTokens == 1

MaxBlockers == 2

\* pot and bet amounts run over the multiples of 50 chips from -50 to
\* 50 * MaxBets
MaxBets == 10

\* the equities given to isCallProfitable are the fractions n / d of [0, 1]
\* with d up to MaxEquityDen
MaxEquityDen == 10

\* the decks given to shuffleDeck hold up to MaxShuffleCards cards
MaxShuffleCards == 4

\* the trainer is followed for up to MaxDecisions scored decisions
MaxDecisions == 3

(***************************************************************************)
(* Card model (cards.ts)                                                   *)
(***************************************************************************)
RANKS == <<"A", "K", "Q", "J", "T", "9", "8", "7", "6", "5", "4", "3", "2">>

SUITS == <<"s", "h", "d", "c">>

RANK_VALUES ==
  [r \in {RANKS[i] : i \in 1..Len(RANKS)} |->
     CASE r = "A" -> 14 [] r = "K" -> 13 [] r = "Q" -> 12 [] r = "J" -> 11
       [] r = "T" -> 10 [] r = "9" -> 9 [] r = "8" -> 8 [] r = "7" -> 7
       [] r = "6" -> 6 [] r = "5" -> 5 [] r = "4" -> 4 [] r = "3" -> 3
       [] r = "2" -> 2]

Card(r, s) == [rank |-> r, suit |-> s]

\* createDeck: suit-major, rank-major
createDeck ==
  [i \in 1..(Len(SUITS) * Len(RANKS)) |->
     Card(RANKS[((i - 1) % Len(RANKS)) + 1], SUITS[((i - 1) \div Len(RANKS)) + 1])]

cardsEqual(a, b) == a.rank = b.rank /\ a.suit = b.suit

Reversed(seq) == [i \in 1..Len(seq) |-> seq[Len(seq) + 1 - i]]

(***************************************************************************)
(* Array helpers with the semantics of the JavaScript built-ins used       *)
(***************************************************************************)
Range(seq) == {seq[i] : i \in 1..Len(seq)}

Val(c) == RANK_VALUES[c.rank]

\* Array.prototype.slice(from, to) with 0-based, end-exclusive indices
Slice(seq, from, to) ==
  SubSeq(seq, from + 1, IF to < Len(seq) THEN to ELSE Len(seq))

\* insertion of c into a sequence sorted by descending rank value, after
\* every element that does not compare below it (Array.prototype.sort is
\* stable)
RECURSIVE InsertDesc(_, _)
InsertDesc(sorted, c) ==
  IF sorted = <<>> THEN <<c>>
  ELSE IF Val(Head(sorted)) >= Val(c)
       THEN <<Head(sorted)>> \o InsertDesc(Tail(sorted), c)
       ELSE <<c>> \o sorted

\* cards.sort((a, b) => RANK_VALUES[b.rank] - RANK_VALUES[a.rank])
RECURSIVE SortByRankDesc(_)
SortByRankDesc(cards) ==
  IF cards = <<>> THEN <<>>
  ELSE InsertDesc(SortByRankDesc(SubSeq(cards, 1, Len(cards) - 1)),
                  cards[Len(cards)])

\* a set of numbers as the descending sequence: [...new Set(xs)].sort((a, b) => b - a)
RECURSIVE SortNumDesc(_)
SortNumDesc(S) ==
  IF S = {} THEN <<>>
  ELSE LET m == CHOOSE x \in S : \A y \in S : y <= x
       IN <<m>> \o SortNumDesc(S \ {m})

\* the keys of a Map in insertion order: the distinct keys by first occurrence
RECURSIVE KeysInOrder(_)
KeysInOrder(keys) ==
  IF keys = <<>> THEN <<>>
  ELSE LET init == KeysInOrder(SubSeq(keys, 1, Len(keys) - 1))
           k == keys[Len(keys)]
       IN IF k \in Range(init) THEN init ELSE Append(init, k)

\* index of the first TRUE of a sequence of booleans, 0 when there is none
FirstTrue(flags) ==
  IF \E i \in 1..Len(flags) : flags[i]
  THEN CHOOSE i \in 1..Len(flags) : flags[i] /\ \A j \in 1..(i - 1) : ~flags[j]
  ELSE 0

(***************************************************************************)
(* Hand evaluator (handEvaluator.ts)                                       *)
(***************************************************************************)
HAND_RANK_VALUES ==
  [r \in {"high_card", "pair", "two_pair", "three_of_a_kind", "straight",
          "flush", "full_house", "four_of_a_kind", "straight_flush",
          "royal_flush"} |->
     CASE r = "high_card" -> 1 [] r = "pair" -> 2 [] r = "two_pair" -> 3
       [] r = "three_of_a_kind" -> 4 [] r = "straight" -> 5 [] r = "flush" -> 6
       [] r = "full_house" -> 7 [] r = "four_of_a_kind" -> 8
       [] r = "straight_flush" -> 9 [] r = "royal_flush" -> 10]

\* strength 1.0 in model units
StrengthUnit == 1400

\* Strength with the division by 14 left out
StrengthNoDivision(a, r, b) == 14 * a + 14 * r * b

\* a/100 + (r / 14) * (b/100), in units of 1/1400
Strength(a, r, b) == 14 * a + r * b

\* the absent value of the code (null / undefined)
NoRank == "none"

NoCards == <<>>

\* the result standing for a TypeError thrown on reading a property of undefined
Thrown ==
  [rank |-> "TypeError", rankValue |-> 0, strength |-> 0,
   description |-> <<"TypeError">>, kickers |-> <<>>, madeHand |-> <<>>]

\* countRanks: the Map rank -> count, as its keys in insertion order and its counts
countRanksKeys(cards) == KeysInOrder([i \in 1..Len(cards) |-> cards[i].rank])

countRanks(cards, rank) == Cardinality({i \in 1..Len(cards) : cards[i].rank = rank})

\* countSuits: the Map suit -> cards of the suit, keys in insertion order
countSuitsKeys(cards) == KeysInOrder([i \in 1..Len(cards) |-> cards[i].suit])

countSuits(cards, suit) == SelectSeq(cards, LAMBDA c : c.suit = suit)

WheelValues == {14, 2, 3, 4, 5}

\* findStraight: the cards of the straight found, NoCards for null
findStraight(cards) ==
  LET uniqueRanks == SortNumDesc({Val(cards[i]) : i \in 1..Len(cards)})
      has(v) == v \in Range(uniqueRanks)
      starts == {i \in 0..(Len(uniqueRanks) - 5) :
                   uniqueRanks[i + 1] - uniqueRanks[i + 5] = 4}
  IN IF has(14) /\ has(2) /\ has(3) /\ has(4) /\ has(5)
     THEN Slice(SelectSeq(cards, LAMBDA c : Val(c) \in WheelValues), 0, 5)
     ELSE IF starts # {}
          THEN LET i == CHOOSE k \in starts : \A j \in starts : k <= j
                   straightValues == {uniqueRanks[k] : k \in (i + 1)..(i + 5)}
               IN Slice(SelectSeq(cards, LAMBDA c : Val(c) \in straightValues), 0, 5)
          ELSE NoCards

\* findFlush without the sort: the first five cards of the suit as dealt
findFlushUnsorted(cards) ==
  LET keys == countSuitsKeys(cards)
      k == FirstTrue([i \in 1..Len(keys) |-> Len(countSuits(cards, keys[i])) >= 5])
  IN IF k = 0 THEN NoCards
     ELSE Slice(countSuits(cards, keys[k]), 0, 5)

\* findFlush: the five highest cards of the first suit holding 5 or more
findFlush(cards) ==
  LET keys == countSuitsKeys(cards)
      k == FirstTrue([i \in 1..Len(keys) |-> Len(countSuits(cards, keys[i])) >= 5])
  IN IF k = 0 THEN NoCards
     ELSE Slice(SortByRankDesc(countSuits(cards, keys[k])), 0, 5)

\* [rank, count] entries sorted by descending rank value
sortedRanks(cards) ==
  LET keys == countRanksKeys(cards)
      vals == SortNumDesc({RANK_VALUES[keys[i]] : i \in 1..Len(keys)})
  IN [i \in 1..Len(vals) |-> CHOOSE r \in Range(keys) : RANK_VALUES[r] = vals[i]]

\* TripsAndPair taking a pair for trips (count >= 2 in the first test)
RECURSIVE TripsAndPairLoose(_, _, _, _)
TripsAndPairLoose(cards, ranks, trips, pair) ==
  IF ranks = <<>> THEN [trips |-> trips, pair |-> pair]
  ELSE LET rank == Head(ranks)
           count == countRanks(cards, rank)
       IN IF count >= 2 /\ trips = NoRank
          THEN TripsAndPairLoose(cards, Tail(ranks), rank, pair)
          ELSE IF count >= 2 /\ pair = NoRank
               THEN TripsAndPairLoose(cards, Tail(ranks), trips, rank)
               ELSE TripsAndPairLoose(cards, Tail(ranks), trips, pair)

\* the loop that picks trips and pair for the full house
RECURSIVE TripsAndPair(_, _, _, _)
TripsAndPair(cards, ranks, trips, pair) ==
  IF ranks = <<>> THEN [trips |-> trips, pair |-> pair]
  ELSE LET rank == Head(ranks)
           count == countRanks(cards, rank)
       IN IF count >= 3 /\ trips = NoRank
          THEN TripsAndPair(cards, Tail(ranks), rank, pair)
          ELSE IF count >= 2 /\ pair = NoRank
               THEN TripsAndPair(cards, Tail(ranks), trips, rank)
               ELSE TripsAndPair(cards, Tail(ranks), trips, pair)

RanksOf(cards) == [i \in 1..Len(cards) |-> cards[i].rank]

\* MaxLoop with && for || in the test of the loop
RECURSIVE MaxLoopBothTests(_, _, _, _)
MaxLoopBothTests(cards, keys, maxCount, maxRank) ==
  IF keys = <<>> THEN [maxCount |-> maxCount, maxRank |-> maxRank]
  ELSE LET rank == Head(keys)
           count == countRanks(cards, rank)
       IN IF count >= maxCount /\ RANK_VALUES[rank] > RANK_VALUES[maxRank]
          THEN MaxLoopBothTests(cards, Tail(keys), count, rank)
          ELSE MaxLoopBothTests(cards, Tail(keys), maxCount, maxRank)

\* evaluatePartialHand: fewer than five cards
RECURSIVE MaxLoop(_, _, _, _)
MaxLoop(cards, keys, maxCount, maxRank) ==
  IF keys = <<>> THEN [maxCount |-> maxCount, maxRank |-> maxRank]
  ELSE LET rank == Head(keys)
           count == countRanks(cards, rank)
       IN IF count > maxCount
             \/ (count = maxCount /\ RANK_VALUES[rank] > RANK_VALUES[maxRank])
          THEN MaxLoop(cards, Tail(keys), count, rank)
          ELSE MaxLoop(cards, Tail(keys), maxCount, maxRank)

evaluatePartialHand(hole, brd) ==
  LET allCards == hole \o brd
      keys == countRanksKeys(allCards)
      m == MaxLoop(allCards, keys, 1, IF allCards = <<>> THEN "A" ELSE allCards[1].rank)
      pairs == SelectSeq(keys, LAMBDA r : countRanks(allCards, r) >= 2)
      sorted == SortByRankDesc(allCards)
  IN IF m.maxCount = 4
     THEN [rank |-> "four_of_a_kind", rankValue |-> 8,
           strength |-> Strength(90, 0, 0),
           description |-> <<"Four of a Kind", m.maxRank>>,
           kickers |-> <<>>, madeHand |-> allCards]
     ELSE IF m.maxCount = 3
     THEN [rank |-> "three_of_a_kind", rankValue |-> 4,
           strength |-> Strength(50, RANK_VALUES[m.maxRank], 10),
           description |-> <<"Three of a Kind", m.maxRank>>,
           kickers |-> <<>>, madeHand |-> allCards]
     ELSE IF Len(pairs) >= 2
     THEN [rank |-> "two_pair", rankValue |-> 3,
           strength |-> Strength(35, 0, 0),
           description |-> <<"Two Pair">>,
           kickers |-> <<>>, madeHand |-> allCards]
     ELSE IF m.maxCount = 2
     THEN [rank |-> "pair", rankValue |-> 2,
           strength |-> Strength(20, RANK_VALUES[m.maxRank], 12),
           description |-> <<"Pair", m.maxRank>>,
           kickers |-> <<>>, madeHand |-> allCards]
     ELSE [rank |-> "high_card", rankValue |-> 1,
           strength |-> Strength(5, IF sorted = <<>> THEN RANK_VALUES["A"]
                                    ELSE Val(sorted[1]), 12),
           description |-> IF sorted = <<>> THEN <<"High Card">>
                           ELSE <<"High Card", sorted[1].rank>>,
           kickers |-> <<>>, madeHand |-> sorted]

\* evaluateHand: the best hand of hole cards plus board
evaluateHand(hole, brd) ==
  LET allCards == hole \o brd
      keys == countRanksKeys(allCards)
      flush == findFlush(allCards)
      straight == findStraight(allCards)
      straightInFlush == IF flush # NoCards THEN findStraight(flush) ELSE NoCards
      q == FirstTrue([i \in 1..Len(keys) |-> countRanks(allCards, keys[i]) = 4])
      sorted == sortedRanks(allCards)
      tp == TripsAndPair(allCards, sorted, NoRank, NoRank)
      trips == tp.trips
      pair == tp.pair
      pairs == SelectSeq(sorted, LAMBDA r : countRanks(allCards, r) >= 2)
  IN IF Len(allCards) < 5 THEN evaluatePartialHand(hole, brd)
     ELSE IF straightInFlush # NoCards
     THEN LET highCard == Val(straightInFlush[1])
          IN IF highCard = 14
             THEN [rank |-> "royal_flush", rankValue |-> 10,
                   strength |-> StrengthUnit,
                   description |-> <<"Royal Flush">>,
                   kickers |-> <<>>, madeHand |-> straightInFlush]
             ELSE [rank |-> "straight_flush", rankValue |-> 9,
                   strength |-> Strength(95, highCard, 4),
                   description |-> <<"Straight Flush", straightInFlush[1].rank>>,
                   kickers |-> <<>>, madeHand |-> straightInFlush]
     ELSE IF q # 0
     THEN LET rank == keys[q]
              quads == SelectSeq(allCards, LAMBDA c : c.rank = rank)
              others == SortByRankDesc(SelectSeq(allCards, LAMBDA c : c.rank # rank))
          IN IF others = <<>> THEN Thrown
             ELSE [rank |-> "four_of_a_kind", rankValue |-> 8,
                   strength |-> Strength(90, RANK_VALUES[rank], 5),
                   description |-> <<"Four of a Kind", rank>>,
                   kickers |-> <<others[1].rank>>,
                   madeHand |-> Append(quads, others[1])]
     ELSE IF trips # NoRank /\ pair # NoRank
     THEN LET tripCards == Slice(SelectSeq(allCards, LAMBDA c : c.rank = trips), 0, 3)
              pairCards == Slice(SelectSeq(allCards, LAMBDA c : c.rank = pair), 0, 2)
          IN [rank |-> "full_house", rankValue |-> 7,
              strength |-> Strength(85, RANK_VALUES[trips], 4),
              description |-> <<"Full House", trips, pair>>,
              kickers |-> <<>>, madeHand |-> tripCards \o pairCards]
     ELSE IF flush # NoCards
     THEN [rank |-> "flush", rankValue |-> 6,
           strength |-> Strength(75, Val(flush[1]), 8),
           description |-> <<"Flush", flush[1].rank>>,
           kickers |-> RanksOf(Tail(flush)), madeHand |-> flush]
     ELSE IF straight # NoCards
     THEN [rank |-> "straight", rankValue |-> 5,
           strength |-> Strength(65, Val(straight[1]), 8),
           description |-> <<"Straight", straight[1].rank>>,
           kickers |-> <<>>, madeHand |-> straight]
     ELSE IF trips # NoRank
     THEN LET tripCards == Slice(SelectSeq(allCards, LAMBDA c : c.rank = trips), 0, 3)
              kickers == Slice(SortByRankDesc(
                                 SelectSeq(allCards, LAMBDA c : c.rank # trips)), 0, 2)
          IN [rank |-> "three_of_a_kind", rankValue |-> 4,
              strength |-> Strength(50, RANK_VALUES[trips], 10),
              description |-> <<"Three of a Kind", trips>>,
              kickers |-> RanksOf(kickers), madeHand |-> tripCards \o kickers]
     ELSE IF Len(pairs) >= 2
     THEN LET topPairs == Slice(pairs, 0, 2)
              pairCards == Slice(SelectSeq(allCards,
                                   LAMBDA c : c.rank \in Range(topPairs)), 0, 4)
              others == SortByRankDesc(SelectSeq(allCards,
                                   LAMBDA c : c.rank \notin Range(topPairs)))
          IN IF others = <<>> THEN Thrown
             ELSE [rank |-> "two_pair", rankValue |-> 3,
                   strength |-> Strength(35, RANK_VALUES[topPairs[1]], 10),
                   description |-> <<"Two Pair", topPairs[1], topPairs[2]>>,
                   kickers |-> <<others[1].rank>>,
                   madeHand |-> Append(pairCards, others[1])]
     ELSE IF Len(pairs) = 1
     THEN LET pairRank == pairs[1]
              pairCards == Slice(SelectSeq(allCards, LAMBDA c : c.rank = pairRank), 0, 2)
              kickers == Slice(SortByRankDesc(
                                 SelectSeq(allCards, LAMBDA c : c.rank # pairRank)), 0, 3)
          IN [rank |-> "pair", rankValue |-> 2,
              strength |-> Strength(20, RANK_VALUES[pairRank], 12),
              description |-> <<"Pair", pairRank>>,
              kickers |-> RanksOf(kickers), madeHand |-> pairCards \o kickers]
     ELSE LET highCards == Slice(SortByRankDesc(allCards), 0, 5)
          IN [rank |-> "high_card", rankValue |-> 1,
              strength |-> Strength(5, Val(highCards[1]), 12),
              description |-> <<"High Card", highCards[1].rank>>,
              kickers |-> RanksOf(Tail(highCards)), madeHand |-> highCards]

\* compareHands: 1 if hand1 wins, -1 if hand2 wins, 0 on a tie
compareHands(hand1, hand2, brd) ==
  LET eval1 == evaluateHand(hand1, brd)
      eval2 == evaluateHand(hand2, brd)
  IN IF eval1.rankValue > eval2.rankValue THEN 1
     ELSE IF eval1.rankValue < eval2.rankValue THEN -1
     ELSE IF eval1.strength > eval2.strength THEN 1
     ELSE IF eval1.strength < eval2.strength THEN -1
     ELSE 0

(***************************************************************************)
(* Board texture analyzer (boardAnalyzer.ts)                               *)
(***************************************************************************)
BROADWAY_RANKS == <<"A", "K", "Q", "J", "T">>

\* numbers sorted descending, duplicates kept: [...ranks].sort((a, b) => b - a)
RECURSIVE SortValuesDesc(_)
SortValuesDesc(xs) ==
  IF xs = <<>> THEN <<>>
  ELSE LET m == CHOOSE i \in 1..Len(xs) : \A j \in 1..Len(xs) : xs[j] <= xs[i]
       IN <<xs[m]>> \o SortValuesDesc([k \in 1..(Len(xs) - 1) |->
                                         IF k < m THEN xs[k] ELSE xs[k + 1]])

\* areConnected: some neighbours of the sorted ranks within maxGap, or an
\* ace together with a rank of 5 or lower
areConnected(ranks, maxGap) ==
  LET sorted == SortValuesDesc(ranks)
  IN \/ \E i \in 1..(Len(sorted) - 1) : sorted[i] - sorted[i + 1] <= maxGap
     \/ (14 \in Range(sorted) /\ \E i \in 1..Len(sorted) : sorted[i] <= 5)

\* countStraightDraws: the windows high..high-4 for high = 14..5, then the wheel
countStraightDraws(rankValues) ==
  LET uniqueRanks == Range(rankValues)
      matchCount(high) == Cardinality({r \in (high - 4)..high : r \in uniqueRanks})
      wheelMatch == Cardinality({r \in WheelValues : r \in uniqueRanks})
  IN [straight |-> (\E high \in 5..14 : matchCount(high) >= 5) \/ wheelMatch >= 5,
      openEnded |-> (\E high \in 5..14 : matchCount(high) = 4) \/ wheelMatch = 4,
      gutshot |-> (\E high \in 5..14 : matchCount(high) = 3) \/ wheelMatch = 3]

\* countSuits of the analyzer: the largest number of cards of one suit
maxSuitCountOf(brd) ==
  LET n(s) == Cardinality({i \in 1..Len(brd) : brd[i].suit = s})
  IN CHOOSE m \in 0..Len(brd) :
       /\ \E i \in 1..Len(brd) : n(brd[i].suit) = m
       /\ \A i \in 1..Len(brd) : n(brd[i].suit) <= m

\* countRanks of the analyzer: the largest number of cards of one rank
maxRankCountOf(brd) ==
  LET n(r) == Cardinality({i \in 1..Len(brd) : brd[i].rank = r})
  IN CHOOSE m \in 0..Len(brd) :
       /\ \E i \in 1..Len(brd) : n(brd[i].rank) = m
       /\ \A i \in 1..Len(brd) : n(brd[i].rank) <= m

\* 1.0 of wetness in model units
WetnessUnit == 6000

\* a/100 of wetness in model units
Wet(a) == 60 * a

\* ClampWetness without the lower bound: Math.min(1, w)
ClampWetnessUpperOnly(w) == IF w > WetnessUnit THEN WetnessUnit ELSE w

\* Math.max(0, Math.min(1, w))
ClampWetness(w) == IF w < 0 THEN 0 ELSE IF w > WetnessUnit THEN WetnessUnit ELSE w

\* the wetness score of analyzeBoard
wetnessOf(isMonotone, isTwoTone, draws, connected, isPaired, isTrips, broadwayCount, boardLength) ==
  ClampWetness(
      (IF isMonotone THEN Wet(35) ELSE IF isTwoTone THEN Wet(15) ELSE 0)
    + (IF draws.straight THEN Wet(25)
       ELSE IF draws.openEnded THEN Wet(20)
       ELSE IF draws.gutshot THEN Wet(10) ELSE 0)
    + (IF connected THEN Wet(10) ELSE 0)
    - (IF isPaired THEN Wet(15) ELSE 0)
    - (IF isTrips THEN Wet(25) ELSE 0)
    + (broadwayCount * Wet(15)) \div boardLength)

\* dangerLevelOf with the two wetness thresholds exchanged
dangerLevelOfSwapped(wetness, isMonotone, isTwoTone, draws) ==
  IF wetness >= Wet(25) \/ isMonotone \/ draws.straight THEN "dangerous"
  ELSE IF wetness >= Wet(50) \/ isTwoTone \/ draws.openEnded THEN "moderate"
  ELSE "safe"

\* the danger level of analyzeBoard
dangerLevelOf(wetness, isMonotone, isTwoTone, draws) ==
  IF wetness >= Wet(50) \/ isMonotone \/ draws.straight THEN "dangerous"
  ELSE IF wetness >= Wet(25) \/ isTwoTone \/ draws.openEnded THEN "moderate"
  ELSE "safe"

generateTextureLabel(isPaired, isTrips, isMonotone, isTwoTone, draws, connected, highCard, broadwayCount) ==
  <<IF broadwayCount >= 2 THEN "Broadway"
    ELSE IF RANK_VALUES[highCard] >= 10 THEN highCard \o "-high"
    ELSE "Low">>
  \o <<IF isMonotone THEN "Monotone" ELSE IF isTwoTone THEN "Two-tone" ELSE "Rainbow">>
  \o (IF isTrips THEN <<"Trips">> ELSE IF isPaired THEN <<"Paired">> ELSE <<>>)
  \o <<IF draws.straight THEN "Straight possible"
       ELSE IF connected THEN "Connected" ELSE "Disconnected">>

\* getEmptyTexture with the rainbow flag of a dealt board left unset
getEmptyTextureNoRainbow ==
  [wetness |-> 0, isPaired |-> FALSE, isTrips |-> FALSE, isMonotone |-> FALSE,
   isTwoTone |-> FALSE, isRainbow |-> FALSE, hasOpenEndedDraw |-> FALSE,
   hasGutshot |-> FALSE, hasStraightPossible |-> FALSE, hasFlushDraw |-> FALSE,
   hasFlushPossible |-> FALSE, highCard |-> "A", hasAce |-> FALSE,
   hasBroadway |-> FALSE, broadwayCount |-> 0, textureLabel |-> <<"No board">>,
   dangerLevel |-> "safe"]

\* getEmptyTexture: the texture returned for fewer than 3 cards
getEmptyTexture ==
  [wetness |-> 0, isPaired |-> FALSE, isTrips |-> FALSE, isMonotone |-> FALSE,
   isTwoTone |-> FALSE, isRainbow |-> TRUE, hasOpenEndedDraw |-> FALSE,
   hasGutshot |-> FALSE, hasStraightPossible |-> FALSE, hasFlushDraw |-> FALSE,
   hasFlushPossible |-> FALSE, highCard |-> "A", hasAce |-> FALSE,
   hasBroadway |-> FALSE, broadwayCount |-> 0, textureLabel |-> <<"No board">>,
   dangerLevel |-> "safe"]

analyzeBoard(brd) ==
  IF Len(brd) < 3 THEN getEmptyTexture
  ELSE
  LET rankValues == [i \in 1..Len(brd) |-> Val(brd[i])]
      maxRankCount == maxRankCountOf(brd)
      isPaired == maxRankCount >= 2
      isTrips == maxRankCount >= 3
      maxSuitCount == maxSuitCountOf(brd)
      suitCountsSize == Cardinality({brd[i].suit : i \in 1..Len(brd)})
      isMonotone == maxSuitCount >= 3 /\ Len(brd) = 3
      isTwoTone == maxSuitCount = 2 /\ Len(brd) = 3
      isRainbow == maxSuitCount = 1 \/ (Len(brd) = 3 /\ suitCountsSize = 3)
      draws == countStraightDraws(rankValues)
      connected == areConnected(rankValues, 2)
      \* reduce keeps the first card of the highest rank
      highCard == brd[CHOOSE i \in 1..Len(brd) :
                        /\ \A j \in 1..Len(brd) : Val(brd[j]) <= Val(brd[i])
                        /\ \A j \in 1..(i - 1) : Val(brd[j]) < Val(brd[i])].rank
      broadwayCards == SelectSeq(brd, LAMBDA c : c.rank \in Range(BROADWAY_RANKS))
      broadwayCount == Len(broadwayCards)
      wetness == wetnessOf(isMonotone, isTwoTone, draws, connected, isPaired,
                           isTrips, broadwayCount, Len(brd))
  IN [wetness |-> wetness, isPaired |-> isPaired, isTrips |-> isTrips,
      isMonotone |-> isMonotone, isTwoTone |-> isTwoTone, isRainbow |-> isRainbow,
      hasOpenEndedDraw |-> draws.openEnded, hasGutshot |-> draws.gutshot,
      hasStraightPossible |-> draws.straight,
      hasFlushDraw |-> maxSuitCount >= 2, hasFlushPossible |-> maxSuitCount >= 3,
      highCard |-> highCard, hasAce |-> \E i \in 1..Len(brd) : brd[i].rank = "A",
      hasBroadway |-> Len(broadwayCards) > 0, broadwayCount |-> broadwayCount,
      textureLabel |-> generateTextureLabel(isPaired, isTrips, isMonotone, isTwoTone,
                                            draws, connected, highCard, broadwayCount),
      dangerLevel |-> dangerLevelOf(wetness, isMonotone, isTwoTone, draws)]

(***************************************************************************)
(* Recommendation table (boardAnalyzer.ts)                                 *)
(*                                                                         *)
(* handStrength is in strength units, confidence in hundredths; of the     *)
(* reasoning text only the headline before the colon is kept.              *)
(***************************************************************************)
\* the absent sizing of a result without the optional field
NoSizing == "none"

Recommend(action, sizing, confidence, headline) ==
  [action |-> action, sizing |-> sizing, confidence |-> confidence, reasoning |-> headline]

\* sizingChoice with the dry-board size left out
sizingChoiceLargeOnly(wetness) == IF wetness > Wet(40) THEN "large" ELSE NoSizing

\* the bet size of a monster hand: large on a wet board
sizingChoice(wetness) == IF wetness > Wet(40) THEN "large" ELSE "medium"

\* the branch of getPostflopRecommendation when facing a bet
recommendFacingBet(strength, tex, pos, str) ==
  IF strength >= Strength(85, 0, 0)
  THEN Recommend("raise", "large", 90, "RAISE FOR VALUE")
  ELSE IF strength >= Strength(65, 0, 0)
  THEN IF tex.dangerLevel = "safe"
       THEN Recommend("raise", "medium", 75, "RAISE FOR VALUE")
       ELSE Recommend("call", NoSizing, 80, "CALL (SLOW PLAY)")
  ELSE IF strength >= Strength(45, 0, 0)
  THEN IF str = "river" /\ tex.dangerLevel = "dangerous"
       THEN Recommend("fold", NoSizing, 55, "FOLD (TOUGH SPOT)")
       ELSE Recommend("call", NoSizing, 65, "CALL (BLUFF CATCHER)")
  ELSE IF strength >= Strength(25, 0, 0)
  THEN IF tex.hasFlushPossible \/ tex.hasStraightPossible
       THEN Recommend("call", NoSizing, 50, "CALL (DRAWING HAND)")
       ELSE IF str = "river"
       THEN Recommend("fold", NoSizing, 70, "FOLD (NO EQUITY)")
       ELSE Recommend("fold", NoSizing, 60, "FOLD (CUT YOUR LOSSES)")
  ELSE IF tex.hasFlushPossible \/ tex.hasStraightPossible
  THEN Recommend("call", NoSizing, 45, "CALL (SPECULATIVE DRAW)")
  ELSE Recommend("fold", NoSizing, 75, "FOLD (NO HAND, NO DRAW)")

\* the branch of getPostflopRecommendation when no bet is faced
recommendNoBet(strength, tex, pos, str) ==
  IF strength >= Strength(85, 0, 0)
  THEN Recommend("bet", sizingChoice(tex.wetness), 90, "BET FOR VALUE")
  ELSE IF strength >= Strength(65, 0, 0)
  THEN IF tex.dangerLevel = "dangerous" /\ str # "river"
       THEN Recommend("bet", "large", 80, "BET LARGE (PROTECTION + VALUE)")
       ELSE Recommend("bet", "medium", 85, "BET FOR VALUE")
  ELSE IF strength >= Strength(45, 0, 0)
  THEN IF tex.dangerLevel = "dangerous"
       THEN IF pos = "IP"
            THEN Recommend("check", NoSizing, 60, "CHECK (POT CONTROL)")
            ELSE Recommend("bet", "small", 55, "BET SMALL (PROBE/PROTECTION)")
       ELSE Recommend("bet", IF tex.isPaired THEN "small" ELSE "medium", 70,
                      "BET FOR THIN VALUE")
  ELSE IF strength >= Strength(25, 0, 0)
  THEN IF pos = "IP"
       THEN Recommend("check", NoSizing, 70, "CHECK (SHOWDOWN VALUE)")
       ELSE IF tex.wetness < Wet(30) /\ ~tex.hasFlushPossible /\ ~tex.hasStraightPossible
       THEN Recommend("bet", "small", 50, "BET SMALL (PROBE)")
       ELSE Recommend("check", NoSizing, 65, "CHECK (GIVE UP)")
  ELSE IF pos = "OOP" /\ str = "flop" /\ tex.wetness > Wet(40)
  THEN Recommend("check", NoSizing, 75, "CHECK (NO BLUFFING OPPORTUNITY)")
  ELSE IF tex.hasFlushPossible \/ tex.hasStraightPossible
  THEN Recommend("bet", "medium", 40, "BET (SEMI-BLUFF)")
  ELSE Recommend("check", NoSizing, 60, "CHECK (NOTHING TO BET)")

\* getPostflopRecommendation that never looks at facingBet
getPostflopRecommendationNoBetOnly(strength, tex, pos, str, facing) ==
  recommendNoBet(strength, tex, pos, str)

getPostflopRecommendation(strength, tex, pos, str, facing) ==
  IF facing THEN recommendFacingBet(strength, tex, pos, str)
  ELSE recommendNoBet(strength, tex, pos, str)

(***************************************************************************)
(* Quick equity estimate and pot odds (handEvaluator.ts, equity part)      *)
(***************************************************************************)
\* 1.0 of the quick estimate in model units: a strength unit times 1/100
QuickEquityUnit == 100 * StrengthUnit

\* estimateFromStrength regressing towards 1.0 instead of 0.5
estimateTowardsOne(strength, boardLength) ==
  LET uncertainty == (5 - boardLength) * 8
      equity == IF boardLength < 5
                THEN strength * (100 - uncertainty) + StrengthUnit * uncertainty
                ELSE strength * 100
  IN IF equity < 0 THEN 0 ELSE IF equity > QuickEquityUnit THEN QuickEquityUnit ELSE equity

\* the body of quickEquityEstimate after the evaluation: the strength
\* regressed towards 0.5 by 0.08 for each board card still to come, clamped
\* to [0, 1]; uncertainty is in hundredths
estimateFromStrength(strength, boardLength) ==
  LET uncertainty == (5 - boardLength) * 8
      equity == IF boardLength < 5
                THEN strength * (100 - uncertainty) + (StrengthUnit \div 2) * uncertainty
                ELSE strength * 100
  IN IF equity < 0 THEN 0 ELSE IF equity > QuickEquityUnit THEN QuickEquityUnit ELSE equity

quickEquityEstimate(heroHand, brd) ==
  estimateFromStrength(evaluateHand(heroHand, brd).strength, Len(brd))

\* calculatePotOdds with the guard betToCall < 0
calculatePotOddsStrictGuard(pot, bet) ==
  IF bet < 0 THEN [num |-> 1, den |-> 1]
  ELSE [num |-> bet, den |-> pot + bet]

\* calculatePotOdds: 1 when there is nothing to call, else the fraction
\* betToCall / (potSize + betToCall)
calculatePotOdds(pot, bet) ==
  IF bet <= 0 THEN [num |-> 1, den |-> 1]
  ELSE [num |-> bet, den |-> pot + bet]

\* equity > potOdds for an equity a of positive denominator; a division by
\* zero of a positive bet is Infinity, which no equity exceeds
GreaterThan(a, b) ==
  IF b.den > 0 THEN a.num * b.den > b.num * a.den
  ELSE IF b.den < 0 THEN a.num * b.den < b.num * a.den
  ELSE FALSE

\* isCallProfitable: equity against the pot odds, and the expected value
\* equity * (potSize + betToCall) - (1 - equity) * betToCall as a fraction
isCallProfitable(equity, pot, bet) ==
  LET odds == calculatePotOdds(pot, bet)
      profitable == GreaterThan(equity, odds)
      winAmount == pot + bet
      ev == [num |-> equity.num * winAmount - (equity.den - equity.num) * bet,
             den |-> equity.den]
  IN [profitable |-> profitable, ev |-> ev]

(***************************************************************************)
(* Range expansion (handEvaluator.ts, equity part)                         *)
(*                                                                         *)
(* A range token such as 'AKs' is the sequence of its characters.          *)
(***************************************************************************)
\* the suits array of expandRange
RangeSuits == <<"s", "h", "d", "c">>

\* the index pairs (i, j) in the order of two nested loops over the suits
SuitIndexPairs ==
  [k \in 1..(Len(RangeSuits) * Len(RangeSuits)) |->
     <<((k - 1) \div Len(RangeSuits)) + 1, ((k - 1) % Len(RangeSuits)) + 1>>]

\* isBlocked looking at the first card of the combo only
isBlockedFirstCard(combo, blk) ==
  \E j \in 1..Len(blk) : blk[j].rank = combo[1].rank /\ blk[j].suit = combo[1].suit

\* isBlocked: some card of the combo equals some blocker
isBlocked(combo, blk) ==
  \E i \in 1..Len(combo) : \E j \in 1..Len(blk) :
    blk[j].rank = combo[i].rank /\ blk[j].suit = combo[i].suit

\* the combos of one token before the blocker test, in loop order
tokenCombos(hand) ==
  IF Len(hand) = 2
  THEN LET rank == hand[1]
           ij == SelectSeq(SuitIndexPairs, LAMBDA p : p[1] < p[2])
       IN [k \in 1..Len(ij) |->
             <<Card(rank, RangeSuits[ij[k][1]]), Card(rank, RangeSuits[ij[k][2]])>>]
  ELSE IF Len(hand) = 3
  THEN LET rank1 == hand[1]
           rank2 == hand[2]
           suited == hand[3] = "s"
       IN IF suited
          THEN [k \in 1..Len(RangeSuits) |->
                  <<Card(rank1, RangeSuits[k]), Card(rank2, RangeSuits[k])>>]
          ELSE LET ij == SelectSeq(SuitIndexPairs, LAMBDA p : p[1] # p[2])
               IN [k \in 1..Len(ij) |->
                     <<Card(rank1, RangeSuits[ij[k][1]]), Card(rank2, RangeSuits[ij[k][2]])>>]
  ELSE <<>>

\* expandRange without the blocker test
RECURSIVE expandRangeUnfiltered(_, _)
expandRangeUnfiltered(range, blk) ==
  IF range = <<>> THEN <<>>
  ELSE tokenCombos(Head(range)) \o expandRangeUnfiltered(Tail(range), blk)

\* expandRange: the unblocked combos of every token, in range order
RECURSIVE expandRange(_, _)
expandRange(range, blk) ==
  IF range = <<>> THEN <<>>
  ELSE SelectSeq(tokenCombos(Head(range)), LAMBDA combo : ~isBlocked(combo, blk))
       \o expandRange(Tail(range), blk)

(***************************************************************************)
(* shuffleDeck (cards.ts): the Fisher-Yates loop, with the random index j  *)
(* of each round as a choice                                               *)
(***************************************************************************)
\* any index of the deck as the value of j
swapChoicesAnyIndex(i, n) == 0..(n - 1)

\* the values Math.floor(Math.random() * (i + 1)) takes at index i of a
\* deck of n cards
swapChoices(i, n) == 0..i

\* [a[i], a[j]] = [a[j], a[i]], with the indices of the code (from 0)
Swap(a, i, j) ==
  LET swapped == [k \in 1..Len(a) |->
                    IF k = i + 1 THEN a[j + 1] ELSE IF k = j + 1 THEN a[i + 1] ELSE a[k]]
  IN SubSeq(swapped, 1, Len(a))

\* the loop of shuffleDeck from index i on, drawing the values of js
RECURSIVE shuffleFrom(_, _, _)
shuffleFrom(a, i, js) ==
  IF i > 0 THEN shuffleFrom(Swap(a, i, Head(js)), i - 1, Tail(js)) ELSE a

\* shuffleDeck when Math.random draws the values of js
shuffleDeck(deck, js) == shuffleFrom(deck, Len(deck) - 1, js)

\* the sequences of values of j the loop can draw from index i down to 1
RECURSIVE ChoicesFrom(_, _)
ChoicesFrom(i, n) ==
  IF i > 0
  THEN {<<j>> \o rest : j \in swapChoices(i, n), rest \in ChoicesFrom(i - 1, n)}
  ELSE {<<>>}

(***************************************************************************)
(* Monte Carlo equity (handEvaluator.ts, equity part)                      *)
(*                                                                         *)
(* The equity of a result is the fraction [num, den] of (wins + ties *     *)
(* 0.5) / samples, that is (2 * wins + ties) / (2 * samples); den = 0 is   *)
(* the NaN of a division 0 / 0.  The confidence field needs a square root  *)
(* and is not part of the model.                                           *)
(***************************************************************************)
\* removeCards taking out the first of cardsToRemove only
removeCardsFirstOnly(deck, cardsToRemove) ==
  SelectSeq(deck, LAMBDA card :
    ~(Len(cardsToRemove) > 0 /\ cardsEqual(card, cardsToRemove[1])))

\* removeCards: the deck without the cards equal to one of cardsToRemove
removeCards(deck, cardsToRemove) ==
  SelectSeq(deck, LAMBDA card :
    ~\E i \in 1..Len(cardsToRemove) : cardsEqual(card, cardsToRemove[i]))

\* the EquityResult returned after the loop
EquityResultOf(w, t, l, n) ==
  [equity |-> [num |-> 2 * w + t, den |-> 2 * n],
   wins |-> w, ties |-> t, losses |-> l, samples |-> n]

\* the TypeError of reading a property of undefined
EquityThrown == [samples |-> -2]

\* the fall-back tests of calculateEquityVsRange without the second one
rangeUnusableEmptyListOnly(range, expanded) == Len(range) = 0

\* the two tests of calculateEquityVsRange made before its loop: an empty
\* range list, or an expansion without any combo
rangeUnusable(range, expanded) == Len(range) = 0 \/ Len(expanded) = 0

\* the check inside the loop: the villain hand holds a known card
villainBlocked(hand, knownCards) ==
  \E i \in 1..Len(hand) : \E j \in 1..Len(knownCards) :
    knownCards[j].rank = hand[i].rank /\ knownCards[j].suit = hand[i].suit

(***************************************************************************)
(* Specification Spec: the evaluator applied to hole cards and a board     *)
(* dealt card by card                                                      *)
(***************************************************************************)
\* the explored part of the 52-card deck
ExploredDeck ==
  {c \in Range(createDeck) : c.suit = SUITS[1] \/ Val(c) <= 1 + FullSuitRanks}

SuitIndex(s) == CHOOSE i \in 1..Len(SUITS) : SUITS[i] = s

CardIndex(c) == 4 * Val(c) + SuitIndex(c.suit)

\* the explored deals arrive lowest card first or highest card first
Ascending(cards) == \A i \in 1..(Len(cards) - 1) : CardIndex(cards[i]) < CardIndex(cards[i + 1])

Descending(cards) == \A i \in 1..(Len(cards) - 1) : CardIndex(cards[i]) > CardIndex(cards[i + 1])

Dealable(cards, c) == Ascending(Append(cards, c)) \/ Descending(Append(cards, c))

NoTexture == [dangerLevel |-> "none"]

\* no equity result, recommendation or pot odds computed yet
NoResult == [samples |-> -1]

NoRecommendation == [action |-> "none"]

NoOdds == [num |-> 0, den |-> 0]

NoCall == [profitable |-> FALSE, ev |-> [num |-> 0, den |-> 0]]

\* the null of scenario, of lastResult and of pendingAction
NoScenario == [heroHand |-> <<>>]

NoLastResult == [userAction |-> "none"]

NoAction == "none"

Init ==
  /\ holeCards = <<>>
  /\ board = <<>>
  /\ evaluation = evaluateHand(<<>>, <<>>)
  /\ villainHand = <<>>
  /\ comparison = 0
  /\ texture = NoTexture
  /\ estimate = quickEquityEstimate(<<>>, <<>>)
  /\ villainRange = <<>>
  /\ blockers = <<>>
  /\ expandedRange = <<>>
  /\ iterations = 0
  /\ entry = "none"
  /\ running = "none"
  /\ pc = "idle"
  /\ iter = 0
  /\ wins = 0
  /\ ties = 0
  /\ losses = 0
  /\ validSamples = 0
  /\ runout = <<>>
  /\ equityResult = NoResult
  /\ handStrength = 0
  /\ position = "IP"
  /\ street = "flop"
  /\ facingBet = FALSE
  /\ recommendation = NoRecommendation
  /\ potSize = 100
  /\ betToCall = 0
  /\ potOdds = NoOdds
  /\ callEquity = [num |-> 0, den |-> 1]
  /\ callResult = NoCall
  /\ shuffleInput = <<>>
  /\ shuffledDeck = <<>>
  /\ shuffleIndex = 0
  /\ shuffleChoices = <<>>
  /\ shufflePc = "idle"
  /\ scenario = NoScenario
  /\ lastResult = NoLastResult
  /\ stats = [correct |-> 0, total |-> 0]
  /\ showAnalysis = FALSE
  /\ showBetSizing = FALSE
  /\ pendingAction = NoAction
  /\ villainBetSize = 50
  /\ heroStack = 1000
  /\ villainStack = 1000
  /\ dealtBy = "none"

\* a hole card is dealt, the hand is evaluated and the estimate is taken
\* from the strength of that evaluation (quickEquityEstimate evaluates the
\* same hand and board again)
DealHoleCard ==
  /\ Len(holeCards) < 2
  /\ \E c \in ExploredDeck :
       /\ Dealable(holeCards, c)
       /\ holeCards' = Append(holeCards, c)
       /\ evaluation' = evaluateHand(holeCards', board)
       /\ estimate' = estimateFromStrength(evaluation'.strength, Len(board))
  /\ UNCHANGED <<board, villainHand, comparison, texture>>
  /\ UNCHANGED <<rangeVars, equityVars, recVars, oddsVars, shuffleVars, trainerVars>>

\* a board card is dealt, the hand is evaluated and the estimate taken
DealBoardCard ==
  /\ Len(holeCards) = 2
  /\ Len(board) < 5
  /\ \E c \in ExploredDeck :
       /\ Dealable(holeCards \o board, c)
       /\ board' = Append(board, c)
       /\ evaluation' = evaluateHand(holeCards, board')
       /\ estimate' = estimateFromStrength(evaluation'.strength, Len(board'))
  /\ UNCHANGED <<holeCards, villainHand, comparison, texture>>
  /\ UNCHANGED <<rangeVars, equityVars, recVars, oddsVars, shuffleVars, trainerVars>>

Next == DealHoleCard \/ DealBoardCard

Spec == Init /\ [][Next]_vars

AllCards == holeCards \o board

(***************************************************************************)
(* Specification SpecBoard: the analyzer applied to a board dealt card by  *)
(* card                                                                    *)
(***************************************************************************)
BoardDeck ==
  {c \in Range(createDeck) : Val(c) <= 1 + BoardLowRanks \/ Val(c) >= 12}

\* a board card is dealt and the texture is computed
DealTextureCard ==
  /\ Len(board) < 5
  /\ \E c \in BoardDeck :
       /\ Ascending(Append(board, c))
       /\ board' = Append(board, c)
       /\ texture' = analyzeBoard(board')
  /\ UNCHANGED <<holeCards, evaluation, villainHand, comparison>>
  /\ UNCHANGED <<estimate, rangeVars, equityVars, recVars, oddsVars, shuffleVars, trainerVars>>

NextBoard == DealTextureCard

SpecBoard == Init /\ [][NextBoard]_vars

(***************************************************************************)
(* Specification SpecCompare: two hands compared on a complete board       *)
(***************************************************************************)
CompareDeck ==
  {c \in Range(createDeck) :
     Val(c) >= 15 - CompareRanks /\ c.suit \in {SUITS[1], SUITS[2]}}

\* the cards of a set, lowest first
RECURSIVE AscendingSeq(_)
AscendingSeq(S) ==
  IF S = {} THEN <<>>
  ELSE LET c == CHOOSE x \in S : \A y \in S : CardIndex(x) <= CardIndex(y)
       IN <<c>> \o AscendingSeq(S \ {c})

Known == Range(holeCards) \cup Range(villainHand) \cup Range(board)

\* the five board cards are dealt
DealCompareBoard ==
  /\ board = <<>>
  /\ \E S \in SUBSET CompareDeck :
       /\ Cardinality(S) = 5
       /\ board' = AscendingSeq(S)
  /\ UNCHANGED <<holeCards, evaluation, villainHand, comparison, texture>>
  /\ UNCHANGED <<estimate, rangeVars, equityVars, recVars, oddsVars, shuffleVars, trainerVars>>

\* the first hand is dealt and evaluated
DealHeroHand ==
  /\ Len(board) = 5
  /\ holeCards = <<>>
  /\ \E S \in SUBSET (CompareDeck \ Known) :
       /\ Cardinality(S) = 2
       /\ holeCards' = AscendingSeq(S)
       /\ evaluation' = evaluateHand(holeCards', board)
  /\ UNCHANGED <<board, villainHand, comparison, texture>>
  /\ UNCHANGED <<estimate, rangeVars, equityVars, recVars, oddsVars, shuffleVars, trainerVars>>

\* the second hand is dealt and the two hands are compared
DealVillainHand ==
  /\ Len(holeCards) = 2
  /\ villainHand = <<>>
  /\ \E S \in SUBSET (CompareDeck \ Known) :
       /\ Cardinality(S) = 2
       /\ villainHand' = AscendingSeq(S)
       /\ comparison' = compareHands(holeCards, villainHand', board)
  /\ UNCHANGED <<holeCards, board, evaluation, texture>>
  /\ UNCHANGED <<estimate, rangeVars, equityVars, recVars, oddsVars, shuffleVars, trainerVars>>

NextCompare == DealCompareBoard \/ DealHeroHand \/ DealVillainHand

SpecCompare == Init /\ [][NextCompare]_vars

(***************************************************************************)
(* Specification SpecEquity: one call of calculateEquityVsRandom or        *)
(* calculateEquityVsRange, iteration by iteration                         *)
(***************************************************************************)
\* the cards the explored shuffles bring to the front, and the cards of the
\* explored hero hands and boards
EquityDeck == {c \in Range(createDeck) : CardIndex(c) > 4 * 14 + 4 - EquityDeckSize}

\* pocket aces and ace-king suited
HeroHands ==
  {<<Card("A", "s"), Card("A", "h")>>, <<Card("A", "s"), Card("K", "s")>>}

EquityBoards(hero) ==
  {AscendingSeq(S) : S \in {T \in SUBSET (EquityDeck \ Range(hero)) : Cardinality(T) <= 5}}

\* the empty range, AA, KK and AKs
EquityRanges == {<<>>, <<<<"A", "A">>>>, <<<<"K", "K">>>>, <<<<"A", "K", "s">>>>}

\* the n highest cards of a set, lowest first
HighestOf(S, n) ==
  AscendingSeq({c \in S : Cardinality({d \in S : CardIndex(d) > CardIndex(c)}) < n})

\* the first n cards of a shuffle of deck: n different cards of the deck.
\* The explored shuffles bring cards of EquityDeck to the front: any two of
\* them as the first split cards (the villain hand, lowest first), then the
\* highest of the others
ShuffledFront(deck, n, split) ==
  LET explored == Range(deck) \cap EquityDeck
  IN {AscendingSeq(V) \o HighestOf(explored \ V, n - split) :
        V \in {T \in SUBSET explored : Cardinality(T) = split}}

knownCards == holeCards \o board

remainingDeck == removeCards(createDeck, knownCards)

cardsNeeded == 5 - Len(board)

\* calculateEquityVsRandom is called
CallVsRandom ==
  /\ pc = "idle"
  /\ \E hero \in HeroHands, n \in 0..MaxIterations :
       \E brd \in EquityBoards(hero) :
         /\ holeCards' = hero
         /\ board' = brd
         /\ iterations' = n
  /\ entry' = "calculateEquityVsRandom"
  /\ running' = "calculateEquityVsRandom"
  /\ pc' = "loop"
  /\ UNCHANGED <<evaluation, villainHand, comparison, texture, estimate>>
  /\ UNCHANGED <<iter, wins, ties, losses, validSamples, runout, equityResult>>
  /\ UNCHANGED <<rangeVars, recVars, oddsVars, shuffleVars, trainerVars>>

\* calculateEquityVsRange is called: the range is expanded, and an unusable
\* range passes the call on to calculateEquityVsRandom
CallVsRange ==
  /\ pc = "idle"
  /\ \E hero \in HeroHands, n \in 0..MaxIterations, range \in EquityRanges :
       \E brd \in EquityBoards(hero) :
         /\ holeCards' = hero
         /\ board' = brd
         /\ iterations' = n
         /\ villainRange' = range
         /\ blockers' = hero \o brd
         /\ expandedRange' = IF Len(range) = 0 THEN <<>> ELSE expandRange(range, hero \o brd)
  /\ entry' = "calculateEquityVsRange"
  /\ running' = IF rangeUnusable(villainRange', expandedRange')
                THEN "calculateEquityVsRandom" ELSE "calculateEquityVsRange"
  /\ pc' = "loop"
  /\ UNCHANGED <<evaluation, villainHand, comparison, texture, estimate>>
  /\ UNCHANGED <<iter, wins, ties, losses, validSamples, runout, equityResult>>
  /\ UNCHANGED <<recVars, oddsVars, shuffleVars, trainerVars>>

\* the counters after one comparison
Count(result) ==
  /\ comparison' = result
  /\ wins' = IF result > 0 THEN wins + 1 ELSE wins
  /\ losses' = IF result > 0 THEN losses ELSE IF result < 0 THEN losses + 1 ELSE losses
  /\ ties' = IF result > 0 \/ result < 0 THEN ties ELSE ties + 1

\* one iteration of calculateEquityVsRandom
RandomIteration ==
  /\ pc = "loop"
  /\ running = "calculateEquityVsRandom"
  /\ iter < iterations
  /\ \E shuffled \in ShuffledFront(remainingDeck, 2 + cardsNeeded, 2) :
       /\ villainHand' = Slice(shuffled, 0, 2)
       /\ runout' = Slice(shuffled, 2, 2 + cardsNeeded)
       /\ \E result \in {compareHands(holeCards, villainHand', board \o runout')} :
            Count(result)
  /\ iter' = iter + 1
  /\ UNCHANGED <<holeCards, board, evaluation, texture, estimate>>
  /\ UNCHANGED <<iterations, entry, running, pc, validSamples, equityResult>>
  /\ UNCHANGED <<rangeVars, recVars, oddsVars, shuffleVars, trainerVars>>

\* calculateEquityVsRandom returns
RandomReturn ==
  /\ pc = "loop"
  /\ running = "calculateEquityVsRandom"
  /\ ~(iter < iterations)
  /\ equityResult' = EquityResultOf(wins, ties, losses, iterations)
  /\ pc' = "done"
  /\ UNCHANGED <<handVars, rangeVars, recVars, oddsVars, shuffleVars, trainerVars>>
  /\ UNCHANGED <<iterations, entry, running, iter, wins, ties, losses, validSamples, runout>>

\* one iteration of calculateEquityVsRange: a combo of the expanded range is
\* picked; a blocked one is skipped, otherwise the board is run out
RangeIteration ==
  /\ pc = "loop"
  /\ running = "calculateEquityVsRange"
  /\ iter < iterations
  /\ IF Len(expandedRange) = 0
     THEN /\ equityResult' = EquityThrown
          /\ pc' = "done"
          /\ UNCHANGED <<villainHand, comparison, iter, wins, ties, losses, validSamples, runout>>
     ELSE \E k \in 1..Len(expandedRange) :
            /\ villainHand' = expandedRange[k]
            /\ iter' = iter + 1
            /\ IF villainBlocked(villainHand', knownCards)
               THEN UNCHANGED <<comparison, wins, ties, losses, validSamples, runout>>
               ELSE LET deckAfterVillain == removeCards(remainingDeck, villainHand')
                    IN \E shuffled \in ShuffledFront(deckAfterVillain, cardsNeeded, 0) :
                         /\ runout' = Slice(shuffled, 0, cardsNeeded)
                         /\ \E result \in {compareHands(holeCards, villainHand',
                                                          board \o runout')} :
                              Count(result)
                         /\ validSamples' = validSamples + 1
            /\ UNCHANGED <<equityResult, pc>>
  /\ UNCHANGED <<holeCards, board, evaluation, texture, estimate>>
  /\ UNCHANGED <<iterations, entry, running>>
  /\ UNCHANGED <<rangeVars, recVars, oddsVars, shuffleVars, trainerVars>>

\* after the loop calculateEquityVsRange returns its result, or passes the
\* call on to calculateEquityVsRandom when no sample was valid
RangeReturn ==
  /\ pc = "loop"
  /\ running = "calculateEquityVsRange"
  /\ ~(iter < iterations)
  /\ IF validSamples = 0
     THEN /\ running' = "calculateEquityVsRandom"
          /\ iter' = 0
          /\ wins' = 0
          /\ ties' = 0
          /\ losses' = 0
          /\ UNCHANGED <<pc, equityResult>>
     ELSE /\ equityResult' = EquityResultOf(wins, ties, losses, validSamples)
          /\ pc' = "done"
          /\ UNCHANGED <<running, iter, wins, ties, losses>>
  /\ UNCHANGED <<handVars, rangeVars, recVars, oddsVars, shuffleVars, trainerVars>>
  /\ UNCHANGED <<iterations, entry, validSamples, runout>>

NextEquity ==
  \/ CallVsRandom
  \/ CallVsRange
  \/ RandomIteration
  \/ RandomReturn
  \/ RangeIteration
  \/ RangeReturn

SpecEquity == Init /\ [][NextEquity]_vars

(***************************************************************************)
(* Specification SpecRecommend: a board is dealt street by street and the  *)
(* recommendation is asked for the current street                         *)
(***************************************************************************)
RecDeck ==
  {c \in Range(createDeck) :
     /\ Val(c) <= 1 + RecLowRanks \/ Val(c) >= 13
     /\ c.suit \in {SUITS[1], SUITS[2], SUITS[3]}}

\* the lower edge of each strength tier: air, weak, medium, strong, monster
StrengthSamples ==
  {0, Strength(25, 0, 0), Strength(45, 0, 0), Strength(65, 0, 0), Strength(85, 0, 0)}

\* the action buttons the trainer shows: fold, call, raise when facing a
\* bet, check and bet otherwise
OfferedActions(facing) ==
  IF facing THEN {"fold", "call", "raise"} ELSE {"check", "bet"}

\* the street of the trainer whose current board has n cards
StreetOf(n) == IF n = 3 THEN "flop" ELSE IF n = 4 THEN "turn" ELSE "river"

\* a board card is dealt and the texture is computed
DealStreetCard ==
  /\ Len(board) < 5
  /\ recommendation = NoRecommendation
  /\ \E c \in RecDeck :
       /\ Ascending(Append(board, c))
       /\ board' = Append(board, c)
       /\ texture' = analyzeBoard(board')
  /\ UNCHANGED <<holeCards, evaluation, villainHand, comparison, estimate>>
  /\ UNCHANGED <<rangeVars, equityVars, recVars, oddsVars, shuffleVars, trainerVars>>

\* the recommendation is computed for the hand strength, the texture of the
\* current board, the position, the street and the bet faced
AskRecommendation ==
  /\ Len(board) \in 3..5
  /\ recommendation = NoRecommendation
  /\ \E strength \in StrengthSamples, pos \in {"IP", "OOP"}, facing \in BOOLEAN :
       /\ handStrength' = strength
       /\ position' = pos
       /\ street' = StreetOf(Len(board))
       /\ facingBet' = facing
       /\ recommendation' = getPostflopRecommendation(strength, texture, pos, street', facing)
  /\ UNCHANGED <<handVars, rangeVars, equityVars, oddsVars, shuffleVars, trainerVars>>

NextRecommend == DealStreetCard \/ AskRecommendation

SpecRecommend == Init /\ [][NextRecommend]_vars

(***************************************************************************)
(* Specification SpecRange: expandRange applied to a range and blockers    *)
(***************************************************************************)
TokenRanks == {RANKS[i] : i \in 1..RangeRanks}

\* pocket pairs, suited and offsuit tokens, and a token of one character
RangeTokens ==
  {<<r, r>> : r \in TokenRanks}
  \cup {<<p[1], p[2], k>> : p \in {q \in TokenRanks \X TokenRanks : q[1] # q[2]}, k \in {"s", "o"}}
  \cup {<<RANKS[1]>>}

RangeChoices == UNION {[1..n -> RangeTokens] : n \in 0..MaxRangeTokens}

BlockerDeck == {c \in Range(createDeck) : c.rank \in TokenRanks}

\* one call of expandRange
ExpandRange ==
  /\ villainRange = <<>> /\ blockers = <<>>
  /\ \E range \in RangeChoices, S \in SUBSET BlockerDeck :
       /\ Cardinality(S) <= MaxBlockers
       /\ villainRange' = range
       /\ blockers' = AscendingSeq(S)
       /\ expandedRange' = expandRange(range, blockers')
  /\ UNCHANGED <<handVars, equityVars, recVars, oddsVars, shuffleVars, trainerVars>>

NextRange == ExpandRange

SpecRange == Init /\ [][NextRange]_vars

(***************************************************************************)
(* Specification SpecOdds: calculatePotOdds applied to a pot and a bet     *)
(***************************************************************************)
ChipAmounts == {50 * k : k \in -1..MaxBets}

\* the equities 0, 1/10, ..., 1/2, ..., 1
Equities ==
  {[num |-> p[1], den |-> p[2]] :
     p \in {q \in (0..MaxEquityDen) \X (1..MaxEquityDen) : q[1] <= q[2]}}

\* one call of calculatePotOdds
CalculatePotOdds ==
  /\ potOdds = NoOdds
  /\ \E pot \in ChipAmounts, bet \in ChipAmounts :
       /\ potSize' = pot
       /\ betToCall' = bet
       /\ potOdds' = calculatePotOdds(pot, bet)
  /\ UNCHANGED <<callEquity, callResult>>
  /\ UNCHANGED <<handVars, rangeVars, equityVars, recVars, shuffleVars, trainerVars>>

\* one call of isCallProfitable, which takes the pot odds itself
IsCallProfitable ==
  /\ potOdds = NoOdds
  /\ callResult = NoCall
  /\ \E equity \in Equities, pot \in ChipAmounts, bet \in ChipAmounts :
       /\ callEquity' = equity
       /\ potSize' = pot
       /\ betToCall' = bet
       /\ potOdds' = calculatePotOdds(pot, bet)
       /\ callResult' = isCallProfitable(equity, pot, bet)
  /\ UNCHANGED <<handVars, rangeVars, equityVars, recVars, shuffleVars, trainerVars>>

NextOdds ==
  \/ CalculatePotOdds
  \/ IsCallProfitable

SpecOdds == Init /\ [][NextOdds]_vars

(***************************************************************************)
(* Specification SpecShuffle: one call of shuffleDeck, swap by swap        *)
(***************************************************************************)
\* decks of distinct cards: up to MaxShuffleCards of the first
\* MaxShuffleCards + 1 cards of createDeck
ShuffleDecks ==
  {AscendingSeq(S) :
     S \in {T \in SUBSET Range(SubSeq(createDeck, 1, MaxShuffleCards + 1)) :
              Cardinality(T) <= MaxShuffleCards}}

\* shuffleDeck is called and copies the deck
ShuffleCall ==
  /\ shufflePc = "idle"
  /\ \E deck \in ShuffleDecks :
       /\ shuffleInput' = deck
       /\ shuffledDeck' = deck
       /\ shuffleIndex' = Len(deck) - 1
  /\ shuffleChoices' = <<>>
  /\ shufflePc' = "loop"
  /\ UNCHANGED <<handVars, rangeVars, equityVars, recVars, oddsVars, trainerVars>>

\* one round of the loop: j is drawn and the cards at i and j are swapped
ShuffleSwap ==
  /\ shufflePc = "loop"
  /\ shuffleIndex > 0
  /\ \E j \in swapChoices(shuffleIndex, Len(shuffledDeck)) :
       /\ shuffledDeck' = Swap(shuffledDeck, shuffleIndex, j)
       /\ shuffleChoices' = Append(shuffleChoices, j)
  /\ shuffleIndex' = shuffleIndex - 1
  /\ UNCHANGED <<shuffleInput, shufflePc>>
  /\ UNCHANGED <<handVars, rangeVars, equityVars, recVars, oddsVars, trainerVars>>

\* the loop ends and the shuffled copy is returned
ShuffleReturn ==
  /\ shufflePc = "loop"
  /\ ~(shuffleIndex > 0)
  /\ shufflePc' = "done"
  /\ UNCHANGED <<shuffleInput, shuffledDeck, shuffleIndex, shuffleChoices>>
  /\ UNCHANGED <<handVars, rangeVars, equityVars, recVars, oddsVars, trainerVars>>

NextShuffle ==
  \/ ShuffleCall
  \/ ShuffleSwap
  \/ ShuffleReturn

SpecShuffle == Init /\ [][NextShuffle]_vars

(***************************************************************************)
(* PostflopTrainer (CommunityCards.tsx): the state of the component and    *)
(* its handlers.  Chip amounts are whole chips; the reasoning text of a    *)
(* result is not part of the model.                                        *)
(***************************************************************************)
\* the BetSize values in the order of the sizing panel and of sizeOrder
BetSizes == <<"33", "50", "75", "100", "150">>

parseInt(size) ==
  CASE size = "33" -> 33 [] size = "50" -> 50 [] size = "75" -> 75
    [] size = "100" -> 100 [] size = "150" -> 150

\* the percentages of the pot the villain bets
VillainBetSizes == <<33, 50, 75, 100>>

\* Math.floor(Math.random() * 4 + 1) * 50
NewPots == {k * 50 : k \in 1..4}

indexOf(seq, x) == CHOOSE i \in 1..Len(seq) : seq[i] = x

getRecommendedBetSize(sizing) ==
  IF sizing = "small" THEN "33" ELSE IF sizing = "large" THEN "100" ELSE "50"

\* dealPostflopScenario when shuffleDeck(createDeck()) returns deck
dealPostflopScenario(deck) ==
  [heroHand |-> <<deck[1], deck[2]>>,
   flop |-> <<deck[3], deck[4], deck[5]>>,
   turn |-> deck[6],
   river |-> deck[7]]

\* currentBoard showing the river card on the turn
currentBoardRiverOnTurn(scen, str) ==
  IF scen = NoScenario THEN <<>>
  ELSE IF str = "preflop" THEN <<>>
  ELSE IF str = "flop" THEN scen.flop
  ELSE IF str = "turn" THEN scen.flop \o <<scen.river>>
  ELSE scen.flop \o <<scen.turn, scen.river>>

\* currentBoard: the board of a scenario on a street
currentBoard(scen, str) ==
  IF scen = NoScenario THEN <<>>
  ELSE IF str = "preflop" THEN <<>>
  ELSE IF str = "flop" THEN scen.flop
  ELSE IF str = "turn" THEN scen.flop \o <<scen.turn>>
  ELSE scen.flop \o <<scen.turn, scen.river>>

\* the chips the hero puts in with an action
heroBetAmount(action, betSize, pot, villainBet) ==
  IF action = "call" THEN villainBet
  ELSE IF action = "bet" /\ betSize # NoAction THEN (pot * parseInt(betSize)) \div 100
  ELSE IF action = "raise" /\ betSize # NoAction
  THEN villainBet + (pot * parseInt(betSize)) \div 100
  ELSE 0

\* the ActionResult of an action against a recommendation
actionResult(action, betSize, rec) ==
  LET sized == action \in {"bet", "raise"} /\ betSize # NoAction
      recSize == getRecommendedBetSize(rec.sizing)
      sizingCorrect ==
        IF sized
        THEN LET d == indexOf(BetSizes, betSize) - indexOf(BetSizes, recSize)
             IN (IF d < 0 THEN -d ELSE d) <= 1
        ELSE TRUE
      isCorrect == action = rec.action \/ rec.confidence < 60
  IN [isCorrect |-> isCorrect /\ sizingCorrect,
      userAction |-> action,
      userBetSize |-> betSize,
      recommendedAction |-> rec.action,
      recommendedBetSize |-> IF sized THEN recSize ELSE NoAction]

\* the state dealNewHand sets: a scenario on the flop, a pot of 50 to 200,
\* both stacks at 1000 less half the pot, and with a bet to face the
\* villain's stack less that bet
dealNewHandEffects(dealt, isFacingBet, newPot, betPercent) ==
  LET startingStack == 1000
      preflopInvestment == newPot \div 2
      betAmount == (newPot * betPercent) \div 100
  IN /\ scenario' = dealt
     /\ street' = "flop"
     /\ facingBet' = isFacingBet
     /\ lastResult' = NoLastResult
     /\ showAnalysis' = FALSE
     /\ showBetSizing' = FALSE
     /\ pendingAction' = NoAction
     /\ potSize' = newPot
     /\ heroStack' = startingStack - preflopInvestment
     /\ villainStack' = IF isFacingBet THEN startingStack - preflopInvestment - betAmount
                        ELSE startingStack - preflopInvestment
     /\ villainBetSize' = IF isFacingBet THEN betAmount ELSE villainBetSize

\* the state advanceStreet sets on the flop and the turn: the next street,
\* with a villain bet or without
nextStreetEffects(isFacingBet, betPercent) ==
  LET betAmount == (potSize * betPercent) \div 100
  IN /\ street' = IF street = "flop" THEN "turn" ELSE "river"
     /\ facingBet' = isFacingBet
     /\ lastResult' = NoLastResult
     /\ showAnalysis' = FALSE
     /\ showBetSizing' = FALSE
     /\ pendingAction' = NoAction
     /\ villainBetSize' = IF isFacingBet THEN betAmount ELSE villainBetSize
     /\ villainStack' = IF isFacingBet THEN villainStack - betAmount ELSE villainStack
     /\ potSize' = IF isFacingBet THEN potSize + betAmount ELSE potSize
     /\ UNCHANGED <<scenario, heroStack>>

\* the state processAction sets for an action and an optional bet size
\* when there are an evaluation and a texture; sizingShown and pending are
\* what its caller leaves in showBetSizing and pendingAction
processActionEffects(action, betSize, sizingShown, pending) ==
  LET brd == currentBoard(scenario, street)
      evaluated == evaluateHand(scenario.heroHand, brd)
      amount == heroBetAmount(action, betSize, potSize, villainBetSize)
  IN \E rec \in {getPostflopRecommendation(evaluated.strength, analyzeBoard(brd),
                                            position, street, facingBet)} :
       \E result \in {actionResult(action, betSize, rec)} :
         /\ heroStack' = heroStack - amount
         /\ potSize' = potSize + amount
         /\ lastResult' = result
         /\ stats' = [correct |-> stats.correct + (IF result.isCorrect THEN 1 ELSE 0),
                      total |-> stats.total + 1]
         /\ showAnalysis' = TRUE
         /\ showBetSizing' = sizingShown
         /\ pendingAction' = pending
         /\ UNCHANGED <<scenario, street, facingBet, villainBetSize, villainStack>>

(***************************************************************************)
(* Specification SpecTrainer: the trainer from its first render on         *)
(***************************************************************************)
\* the shuffles of the deck explored for a deal: the deck as created and
\* the deck cut after its first eleven cards
ExploredShuffles ==
  LET n == Len(createDeck)
  IN {createDeck, [k \in 1..n |-> createDeck[((k + 10) % n) + 1]]}

Scenarios == {dealPostflopScenario(deck) : deck \in ExploredShuffles}

\* the pots and the villain bets explored: the smallest and the largest
ExploredPots == {p \in NewPots : \A q \in NewPots : p <= q \/ \A r \in NewPots : r <= p}

ExploredVillainBets == {VillainBetSizes[1], VillainBetSizes[Len(VillainBetSizes)]}

\* the buttons of the sizing panel explored: the smallest and the largest
ExploredBetSizes == {BetSizes[1], BetSizes[Len(BetSizes)]}

\* the variables of the other specifications that the trainer leaves alone
trainerOthers ==
  <<handVars, rangeVars, equityVars, shuffleVars, handStrength, recommendation, betToCall, potOdds, callEquity, callResult>>

\* the body of dealNewHand with its random draws
dealNewHand ==
  \E dealt \in Scenarios, newPot \in ExploredPots :
    \/ dealNewHandEffects(dealt, FALSE, newPot, 0)
    \/ \E betPercent \in ExploredVillainBets :
         dealNewHandEffects(dealt, TRUE, newPot, betPercent)

\* the body of advanceStreet with its random draws
advanceStreet ==
  IF street = "flop" \/ street = "turn"
  THEN \/ nextStreetEffects(FALSE, 0)
       \/ \E betPercent \in ExploredVillainBets : nextStreetEffects(TRUE, betPercent)
  ELSE dealNewHand

\* processAction: without an evaluation or a texture (no scenario, or the
\* preflop street) it sets a result and goes on to the next street, whose
\* updates of lastResult come last
processAction(action, betSize, sizingShown, pending) ==
  IF scenario = NoScenario
  THEN UNCHANGED <<scenario, street, facingBet, lastResult, stats, showAnalysis, showBetSizing, pendingAction, potSize, villainBetSize, heroStack, villainStack>>
  ELSE IF street = "preflop"
  THEN advanceStreet /\ UNCHANGED stats
  ELSE processActionEffects(action, betSize, sizingShown, pending)

\* dealNewHand: the effect run on mount, the New Hand button shown after a
\* decision on the river, and the Deal button shown at all times
DealNewHand ==
  /\ dealNewHand
  /\ dealtBy' = "dealNewHand"
  /\ UNCHANGED <<position, stats, trainerOthers>>

\* handleAction on one of the buttons shown: bet and raise open the sizing
\* panel, the other actions are processed at once
HandleAction ==
  /\ scenario # NoScenario
  /\ ~showAnalysis
  /\ ~showBetSizing
  /\ stats.total < MaxDecisions
  /\ \E action \in OfferedActions(facingBet) :
       IF action = "bet" \/ action = "raise"
       THEN /\ pendingAction' = action
            /\ showBetSizing' = TRUE
            /\ UNCHANGED <<scenario, street, facingBet, lastResult, stats, showAnalysis>>
            /\ UNCHANGED <<potSize, villainBetSize, heroStack, villainStack>>
       ELSE processAction(action, NoAction, showBetSizing, pendingAction)
  /\ UNCHANGED <<position, dealtBy, trainerOthers>>

\* handleBetSize on a button of the sizing panel
HandleBetSize ==
  /\ scenario # NoScenario
  /\ ~showAnalysis
  /\ showBetSizing
  /\ pendingAction # NoAction
  /\ stats.total < MaxDecisions
  /\ \E size \in ExploredBetSizes :
       processAction(pendingAction, size, FALSE, NoAction)
  /\ UNCHANGED <<position, dealtBy, trainerOthers>>

\* cancelBetSizing on the Cancel button of the sizing panel
CancelBetSizing ==
  /\ scenario # NoScenario
  /\ ~showAnalysis
  /\ showBetSizing
  /\ showBetSizing' = FALSE
  /\ pendingAction' = NoAction
  /\ UNCHANGED <<scenario, street, facingBet, lastResult, stats, showAnalysis>>
  /\ UNCHANGED <<potSize, villainBetSize, heroStack, villainStack>>
  /\ UNCHANGED <<position, dealtBy, trainerOthers>>

\* advanceStreet after a decision.  The Next Street button is shown on the
\* flop and the turn; after a decision on the river the button shown calls
\* dealNewHand, which is all advanceStreet does on the river
AdvanceStreet ==
  /\ scenario # NoScenario
  /\ showAnalysis
  /\ advanceStreet
  /\ dealtBy' = IF street = "flop" \/ street = "turn" THEN dealtBy ELSE "advanceStreet"
  /\ UNCHANGED <<position, stats, trainerOthers>>

\* one of the two position buttons
SetPosition ==
  /\ scenario # NoScenario
  /\ \E pos \in {"IP", "OOP"} :
       /\ pos # position
       /\ position' = pos
  /\ UNCHANGED <<scenario, street, facingBet, lastResult, stats, showAnalysis>>
  /\ UNCHANGED <<showBetSizing, pendingAction, potSize, villainBetSize, heroStack, villainStack>>
  /\ UNCHANGED <<dealtBy, trainerOthers>>

NextTrainer ==
  \/ DealNewHand
  \/ HandleAction
  \/ HandleBetSize
  \/ CancelBetSizing
  \/ AdvanceStreet
  \/ SetPosition

SpecTrainer == Init /\ [][NextTrainer]_vars

(***************************************************************************)
(* Standard poker ranking, the reference the evaluator is compared with    *)
(***************************************************************************)
CategoryOrder ==
  <<"high_card", "pair", "two_pair", "three_of_a_kind", "straight", "flush",
    "full_house", "four_of_a_kind", "straight_flush", "royal_flush">>

FiveCardSubsets(S) == {T \in SUBSET S : Cardinality(T) = 5}

ValuesOf(S) == {Val(c) : c \in S}

CountOf(S, v) == Cardinality({c \in S : Val(c) = v})

IsRun(V) ==
  /\ Cardinality(V) = 5
  /\ \/ V = WheelValues
     \/ \E top \in 6..14 : V = (top - 4)..top

\* the category index 1..10 of exactly five cards
FiveCardCategory(S) ==
  LET V == ValuesOf(S)
      isFlush == \E s \in Range(SUITS) : \A c \in S : c.suit = s
      isStraight == IsRun(V)
      most == CHOOSE n \in 1..4 : (\E v \in V : CountOf(S, v) = n)
                                  /\ (\A v \in V : CountOf(S, v) <= n)
  IN IF isFlush /\ V = 10..14 THEN 10
     ELSE IF isFlush /\ isStraight THEN 9
     ELSE IF most = 4 THEN 8
     ELSE IF most = 3 /\ Cardinality(V) = 2 THEN 7
     ELSE IF isFlush THEN 6
     ELSE IF isStraight THEN 5
     ELSE IF most = 3 THEN 4
     ELSE IF most = 2 /\ Cardinality(V) = 3 THEN 3
     ELSE IF most = 2 THEN 2
     ELSE 1

\* the category of the best five-card subset
BestCategory(S) ==
  CHOOSE k \in 1..10 :
    /\ \E T \in FiveCardSubsets(S) : FiveCardCategory(T) = k
    /\ \A T \in FiveCardSubsets(S) : FiveCardCategory(T) <= k

\* the top rank value of the highest five-rank run among the values V, the
\* wheel counting as the run topped by 5; 0 when there is no run
HighestRunTop(V) ==
  LET tops == {top \in 5..14 :
                 IF top = 5 THEN WheelValues \subseteq V
                 ELSE (top - 4)..top \subseteq V}
  IN IF tops = {} THEN 0 ELSE CHOOSE t \in tops : \A u \in tops : u <= t

RankOfValue(v) == CHOOSE r \in DOMAIN RANK_VALUES : RANK_VALUES[r] = v

FullInput == Len(holeCards) = 2 /\ Len(board) \in 3..5

(***************************************************************************)
(* Claims on the hand evaluator                                            *)
(***************************************************************************)
\* C1: for 2 hole cards and a board of 3 to 5 cards, evaluateHand returns the
\* category of the best five-card subset under standard rules, and rankValue
\* is the index 1..10 of that category.
C1_BestCategory ==
  FullInput =>
    /\ evaluation.rank = CategoryOrder[BestCategory(Range(AllCards))]
    /\ evaluation.rankValue = BestCategory(Range(AllCards))

HasRoyal(S) ==
  \E s \in Range(SUITS) :
    \A r \in {"T", "J", "Q", "K", "A"} : Card(r, s) \in S

\* hole cards [Ah, Kh] with board [Qh, Jh, Th]
ExampleRoyalFlush ==
  evaluateHand(<<Card("A", "h"), Card("K", "h")>>,
               <<Card("Q", "h"), Card("J", "h"), Card("T", "h")>>)

\* C2: whenever 5 to 7 cards contain T, J, Q, K, A of one suit, the result
\* is royal_flush with rankValue 10 and strength 1.0, whatever the other
\* cards and however the cards are split between hole cards and board.
C2_RoyalFlush ==
  (Len(AllCards) >= 5 /\ HasRoyal(Range(AllCards))) =>
    /\ evaluation.rank = "royal_flush"
    /\ evaluation.rankValue = 10
    /\ evaluation.strength = StrengthUnit
    /\ ExampleRoyalFlush.rank = "royal_flush"
    /\ ExampleRoyalFlush.strength = StrengthUnit

\* a royal flush among seven cards, six of them of the flush suit
C2_Witness ==
  /\ Len(AllCards) = 7
  /\ HasRoyal(Range(AllCards))
  /\ Cardinality({c \in Range(AllCards) : c.suit = SUITS[1]}) = 6
  /\ evaluation.rank = "royal_flush"

SuitHasRun(S) ==
  \E s \in Range(SUITS) :
    LET suited == {c \in S : c.suit = s}
    IN /\ Cardinality(suited) >= 5
       /\ HighestRunTop(ValuesOf(suited)) # 0

\* C3: whenever a suit holds 5 to 7 of the cards and the ranks of those
\* suited cards contain five consecutive ranks (the wheel included), the
\* result is straight_flush or royal_flush.
C3_StraightFlushInSuit ==
  (Len(AllCards) >= 5 /\ SuitHasRun(Range(AllCards))) =>
    evaluation.rank \in {"straight_flush", "royal_flush"}

\* the base a and the coefficient b of the strength a/100 + (r/14) * b/100
\* of each category
BandBase == <<5, 20, 35, 50, 65, 75, 85, 90, 95, 100>>

BandCoef == <<12, 12, 10, 10, 8, 8, 4, 5, 4, 0>>

\* the lowest strength of a category: rank 0 where the partial evaluation
\* adds no rank term, rank 2 otherwise
BandLow(k) == Strength(BandBase[k], IF k = 9 THEN 2 ELSE 0, BandCoef[k])

BandHigh(k) == Strength(BandBase[k], 14, BandCoef[k])

\* C4: a strictly higher rankValue implies a strictly higher strength: every
\* strength lies in the band of its category, and the band of a category
\* lies strictly above the band of every lower category (partial
\* evaluations included).
C4_StrengthBands ==
  /\ evaluation.rankValue \in 1..10
  /\ BandLow(evaluation.rankValue) <= evaluation.strength
  /\ evaluation.strength <= BandHigh(evaluation.rankValue)
  /\ \A k \in 1..9 : BandHigh(k) < BandLow(k + 1)

\* the lowest straight flush the evaluator reports, next to the band of
\* four of a kind
C4_Witness ==
  /\ evaluation.rank = "straight_flush"
  /\ evaluation.strength = Strength(95, 6, 4)
  /\ Len(AllCards) = 7

MostOfARank(S) ==
  IF S = {} THEN 0
  ELSE CHOOSE n \in 1..4 : (\E v \in ValuesOf(S) : CountOf(S, v) = n)
                           /\ (\A v \in ValuesOf(S) : CountOf(S, v) <= n)

\* hole cards [2c, 2d] with board [2h, 7s, 7c, 9d, Kd]
ExampleFullHouse ==
  evaluateHand(<<Card("2", "c"), Card("2", "d")>>,
               <<Card("2", "h"), Card("7", "s"), Card("7", "c"),
                 Card("9", "d"), Card("K", "d")>>)

\* C6: in a full_house result the trips rank is the highest rank occurring
\* at least 3 times, the pair rank the highest other rank occurring at least
\* twice, and madeHand holds three cards of the trips rank and two of the
\* pair rank.
C6_FullHouseRanks ==
  evaluation.rank = "full_house" =>
    LET S == Range(AllCards)
        trips == RANK_VALUES[evaluation.description[2]]
        pair == RANK_VALUES[evaluation.description[3]]
        made == Range(evaluation.madeHand)
    IN /\ evaluation.rankValue = 7
       /\ CountOf(S, trips) >= 3
       /\ \A v \in ValuesOf(S) : CountOf(S, v) >= 3 => v <= trips
       /\ pair # trips
       /\ CountOf(S, pair) >= 2
       /\ \A v \in ValuesOf(S) \ {trips} : CountOf(S, v) >= 2 => v <= pair
       /\ Len(evaluation.madeHand) = 5
       /\ Cardinality(made) = 5
       /\ made \subseteq S
       /\ CountOf(made, trips) = 3
       /\ CountOf(made, pair) = 2
       /\ ExampleFullHouse.description = <<"Full House", "2", "7">>
       /\ ExampleFullHouse.rankValue = 7

\* a full house whose pair comes from a second, lower three of a kind
C6_Witness ==
  /\ evaluation.rank = "full_house"
  /\ Len(AllCards) = 7
  /\ CountOf(Range(AllCards), RANK_VALUES[evaluation.description[3]]) = 3

\* C7: a straight result has strength 0.65 + (h/14) * 0.08 and names h as
\* the high card, h being the top of the highest five-rank run among the
\* ranks held, the wheel counting as the run topped by 5.
C7_StraightHighCard ==
  evaluation.rank = "straight" =>
    LET h == HighestRunTop(ValuesOf(Range(AllCards)))
    IN /\ h # 0
       /\ evaluation.strength = Strength(65, h, 8)
       /\ evaluation.description = <<"Straight", RankOfValue(h)>>

PairedRanks(S) == {v \in ValuesOf(S) : CountOf(S, v) >= 2}

\* the category that the rank multiplicities of fewer than five cards give
PartialCategory(S) ==
  IF MostOfARank(S) = 4 THEN "four_of_a_kind"
  ELSE IF MostOfARank(S) = 3 THEN "three_of_a_kind"
  ELSE IF Cardinality(PairedRanks(S)) >= 2 THEN "two_pair"
  ELSE IF MostOfARank(S) = 2 THEN "pair"
  ELSE "high_card"

\* C8: evaluateHand returns an evaluation for every input of 0 to 7 cards
\* and never throws; with fewer than 5 cards the rank is the one of
\* high_card, pair, two_pair, three_of_a_kind, four_of_a_kind that the rank
\* multiplicities give.
C8_TotalAndPartial ==
  /\ evaluation.rank \in Range(CategoryOrder)
  /\ evaluation.rankValue = HAND_RANK_VALUES[evaluation.rank]
  /\ Len(AllCards) < 5 => evaluation.rank = PartialCategory(Range(AllCards))

\* a partial evaluation of two hole cards and two board cards holding a pair
\* below the highest card
C8_Witness ==
  /\ Len(holeCards) = 2
  /\ Len(board) = 2
  /\ evaluation.rank = "pair"
  /\ \E c \in Range(AllCards) : Val(c) > RANK_VALUES[evaluation.description[2]]

(***************************************************************************)
(* Claims on hand comparison                                               *)
(***************************************************************************)
\* the rank values of five cards in the order that decides between hands of
\* one category: by multiplicity, then by value, the ace of a wheel low
TieBreakValue(c, S) == IF ValuesOf(S) = WheelValues /\ Val(c) = 14 THEN 1 ELSE Val(c)

TieBreakKey(c, S) ==
  (CountOf(S, Val(c)) * 15 + TieBreakValue(c, S)) * 5 + SuitIndex(c.suit)

TieBreakPlace(c, S) == Cardinality({d \in S : TieBreakKey(d, S) > TieBreakKey(c, S)})

CardAtPlace(S, p) == CHOOSE c \in S : TieBreakPlace(c, S) = p

\* five cards as one number: the category, then the ordered rank values
FiveCardValue(S) ==
    FiveCardCategory(S) * 759375
  + TieBreakValue(CardAtPlace(S, 0), S) * 50625
  + TieBreakValue(CardAtPlace(S, 1), S) * 3375
  + TieBreakValue(CardAtPlace(S, 2), S) * 225
  + TieBreakValue(CardAtPlace(S, 3), S) * 15
  + TieBreakValue(CardAtPlace(S, 4), S)

BestHandValue(S) ==
  LET values == {FiveCardValue(T) : T \in FiveCardSubsets(S)}
  IN CHOOSE v \in values : \A w \in values : w <= v

StandardCompare(hand1, hand2, brd) ==
  LET v1 == BestHandValue(Range(hand1) \cup Range(brd))
      v2 == BestHandValue(Range(hand2) \cup Range(brd))
  IN IF v1 > v2 THEN 1 ELSE IF v1 < v2 THEN -1 ELSE 0

\* C5: for two hands on one complete board, comparing rankValue and then
\* strength orders the hands exactly as standard poker ranking with full
\* kicker resolution, a tie only when the best five cards have the same
\* rank values.
C5_StandardOrder ==
  (Len(board) = 5 /\ Len(holeCards) = 2 /\ Len(villainHand) = 2) =>
    comparison = StandardCompare(holeCards, villainHand, board)

(***************************************************************************)
(* Claims on the board texture analyzer                                    *)
(***************************************************************************)
AnalyzedBoard == Len(board) \in 3..5

BoardValues == [i \in 1..Len(board) |-> Val(board[i])]

\* the wetness sum of the claim before clamping, from the flags of the texture
WetnessSum ==
    (IF texture.isMonotone THEN 2100 ELSE IF texture.isTwoTone THEN 900 ELSE 0)
  + (IF texture.hasStraightPossible THEN 1500
     ELSE IF texture.hasOpenEndedDraw THEN 1200
     ELSE IF texture.hasGutshot THEN 600 ELSE 0)
  + (IF areConnected(BoardValues, 2) THEN 600 ELSE 0)
  - (IF texture.isPaired THEN 900 ELSE 0)
  - (IF texture.isTrips THEN 1500 ELSE 0)
  + (texture.broadwayCount * 900) \div Len(board)

\* C9: wetness is the sum 0.35 monotone else 0.15 two-tone, 0.25 straight
\* else 0.2 open-ended else 0.1 gutshot, 0.1 connected, -0.15 paired and a
\* further -0.25 trips, (broadwayCount / board size) * 0.15, clamped, so
\* that 0 <= wetness <= 1 on every board of 3 to 5 cards.
C9_Wetness ==
  AnalyzedBoard =>
    /\ texture.wetness >= 0
    /\ texture.wetness <= WetnessUnit
    /\ WetnessSum < 0 => texture.wetness = 0
    /\ WetnessSum > WetnessUnit => texture.wetness = WetnessUnit
    /\ WetnessSum \in 0..WetnessUnit => texture.wetness = WetnessSum
    /\ (texture.broadwayCount * 900) % Len(board) = 0

\* a board of trips whose sum is negative and is clamped to 0
C9_Witness ==
  /\ Len(board) = 4
  /\ texture.isTrips
  /\ WetnessSum < 0
  /\ texture.wetness = 0

DangerRank(level) ==
  CASE level = "safe" -> 0 [] level = "moderate" -> 1 [] level = "dangerous" -> 2

\* wetness values around the two thresholds
WetnessSamples == {0, 1499, 1500, 2999, 3000, WetnessUnit}

\* C10: dangerLevel is dangerous iff wetness >= 0.5 or monotone or a
\* straight is on board, otherwise moderate iff wetness >= 0.25 or two-tone
\* or open-ended, otherwise safe; with the flags fixed a larger wetness
\* never gives a lower level.
C10_DangerLevel ==
  AnalyzedBoard =>
    /\ texture.dangerLevel = "dangerous" <=>
         (texture.wetness >= 3000 \/ texture.isMonotone
            \/ texture.hasStraightPossible)
    /\ texture.dangerLevel = "moderate" <=>
         /\ ~(texture.wetness >= 3000 \/ texture.isMonotone
                \/ texture.hasStraightPossible)
         /\ (texture.wetness >= 1500 \/ texture.isTwoTone
               \/ texture.hasOpenEndedDraw)
    /\ texture.dangerLevel \in {"safe", "moderate", "dangerous"}
    /\ \A w1, w2 \in WetnessSamples :
         w1 <= w2 =>
           DangerRank(dangerLevelOf(w1, texture.isMonotone, texture.isTwoTone,
                        [straight |-> texture.hasStraightPossible,
                         openEnded |-> texture.hasOpenEndedDraw,
                         gutshot |-> texture.hasGutshot]))
           <= DangerRank(dangerLevelOf(w2, texture.isMonotone, texture.isTwoTone,
                        [straight |-> texture.hasStraightPossible,
                         openEnded |-> texture.hasOpenEndedDraw,
                         gutshot |-> texture.hasGutshot]))

\* a turn board that is moderate by its wetness alone
C10_Witness ==
  /\ Len(board) = 4
  /\ texture.dangerLevel = "moderate"
  /\ ~texture.isTwoTone
  /\ ~texture.hasOpenEndedDraw
  /\ texture.wetness >= 1500

\* the number of the three flop flags that are set
FlopFlagCount ==
    (IF texture.isMonotone THEN 1 ELSE 0)
  + (IF texture.isTwoTone THEN 1 ELSE 0)
  + (IF texture.isRainbow THEN 1 ELSE 0)

\* C11: isMonotone, isTwoTone and isRainbow can be true only on a board of
\* exactly 3 cards: on every 4-card and 5-card board all three are false,
\* and on every 3-card board exactly one of them is true.
C11_FlopFlags ==
  /\ Len(board) \in 4..5 => FlopFlagCount = 0
  /\ Len(board) = 3 => FlopFlagCount = 1

\* two distinct board ranks within 2 of each other, or an ace with a rank of
\* 5 or lower
ConnectedByDistinctRanks ==
  \/ \E i, j \in 1..Len(board) :
       /\ Val(board[i]) # Val(board[j])
       /\ Val(board[i]) - Val(board[j]) \in 1..2
  \/ /\ \E i \in 1..Len(board) : Val(board[i]) = 14
     /\ \E i \in 1..Len(board) : Val(board[i]) <= 5

\* C12: the connected condition of analyzeBoard (0.1 of wetness, the label
\* Connected or Disconnected) is true exactly when two distinct board ranks
\* differ by at most 2 or the board holds an ace and a rank of 5 or lower; a
\* pair does not by itself make the board connected.
C12_Connected ==
  AnalyzedBoard =>
    /\ areConnected(BoardValues, 2) <=> ConnectedByDistinctRanks
    /\ ~texture.hasStraightPossible =>
         ("Connected" \in Range(texture.textureLabel) <=> ConnectedByDistinctRanks)
    /\ ~texture.hasStraightPossible =>
         ("Disconnected" \in Range(texture.textureLabel) <=> ~ConnectedByDistinctRanks)

\* the canonical empty texture as the claim lists it
CanonicalEmptyTexture ==
  /\ texture.wetness = 0
  /\ ~texture.isPaired /\ ~texture.isTrips
  /\ ~texture.isMonotone /\ ~texture.isTwoTone
  /\ texture.isRainbow
  /\ ~texture.hasOpenEndedDraw /\ ~texture.hasGutshot
  /\ ~texture.hasStraightPossible
  /\ ~texture.hasFlushDraw /\ ~texture.hasFlushPossible
  /\ ~texture.hasAce /\ ~texture.hasBroadway
  /\ texture.broadwayCount = 0
  /\ texture.dangerLevel = "safe"
  /\ texture.textureLabel = <<"No board">>

\* C13: analyzeBoard on a board of 0, 1 or 2 cards returns the canonical
\* empty texture without raising: wetness 0, every pairing, draw and flush
\* flag false, isRainbow true, broadwayCount 0, dangerLevel safe, label
\* "No board".
C13_EmptyTexture ==
  /\ Len(board) \in 1..2 => CanonicalEmptyTexture
  /\ Len(board) < 3 => analyzeBoard(board) = analyzeBoard(<<>>)
  /\ Len(board) < 3 => analyzeBoard(board) # Thrown

\* a board of two cards of one rank, analyzed to the empty texture
C13_Witness ==
  /\ Len(board) = 2
  /\ board[1].rank = board[2].rank
  /\ texture.textureLabel = <<"No board">>
  /\ texture.isRainbow

(***************************************************************************)
(* Claims on the quick equity estimate and the pot odds                    *)
(***************************************************************************)
\* C19: quickEquityEstimate(hero, board) equals s * (1 - u) + 0.5 * u with
\* s the strength of evaluateHand(hero, board) and u = (5 - board size) *
\* 0.08 on boards of 0 to 4 cards, and equals s on a 5-card board; the
\* result lies between s and 0.5 inclusive and within [0, 1].
C19_QuickEstimate ==
  LET s == evaluation.strength
      u == (5 - Len(board)) * 8
  IN /\ Len(board) <= 4 => estimate = s * (100 - u) + 700 * u
     /\ Len(board) = 5 => estimate = 100 * s
     /\ \/ 100 * s <= estimate /\ estimate <= 70000
        \/ 70000 <= estimate /\ estimate <= 100 * s
     /\ estimate >= 0
     /\ estimate <= 140000

\* a flop with a hand stronger than 0.5, estimated strictly between
C19_Witness ==
  /\ Len(holeCards) = 2
  /\ Len(board) = 3
  /\ 70000 < estimate
  /\ estimate < 100 * evaluation.strength

\* C20: calculatePotOdds returns 1 whenever betToCall <= 0 and otherwise
\* betToCall / (potSize + betToCall), so that (100, 50) gives 1/3; for
\* potSize >= 0 and betToCall > 0 the result is greater than 0 and at most 1.
C20_PotOdds ==
  potOdds # NoOdds =>
    /\ betToCall <= 0 => potOdds.num = potOdds.den /\ potOdds.den # 0
    /\ betToCall > 0 =>
         /\ potOdds.den = 0 <=> potSize + betToCall = 0
         /\ potOdds.num * (potSize + betToCall) = betToCall * potOdds.den
    /\ potSize = 100 /\ betToCall = 50 => 3 * potOdds.num = potOdds.den
    /\ potSize >= 0 /\ betToCall > 0 =>
         /\ potOdds.den > 0
         /\ 0 < potOdds.num
         /\ potOdds.num <= potOdds.den

\* the pot of 100 with 50 to call
C20_Witness ==
  /\ potSize = 100
  /\ betToCall = 50
  /\ 3 * potOdds.num = potOdds.den

(***************************************************************************)
(* Claims on range expansion                                               *)
(***************************************************************************)
PocketPairToken(t) == Len(t) = 2 /\ t[1] = t[2]

SuitedToken(t) == Len(t) = 3 /\ t[3] = "s"

OffsuitToken(t) == Len(t) = 3 /\ t[3] = "o"

\* the combos the claim gives a token, each as the set of its two cards
ClaimedCombos(t) ==
  IF PocketPairToken(t)
  THEN {{Card(t[1], s1), Card(t[1], s2)} : s1 \in Range(SUITS), s2 \in Range(SUITS)}
       \ {{Card(t[1], s1)} : s1 \in Range(SUITS)}
  ELSE IF SuitedToken(t)
  THEN {{Card(t[1], s1), Card(t[2], s1)} : s1 \in Range(SUITS)}
  ELSE IF OffsuitToken(t)
  THEN {{Card(t[1], sp[1]), Card(t[2], sp[2])} :
          sp \in {p \in Range(SUITS) \X Range(SUITS) : p[1] # p[2]}}
  ELSE {}

ClaimedCount(t) ==
  IF PocketPairToken(t) THEN 6
  ELSE IF SuitedToken(t) THEN 4
  ELSE IF OffsuitToken(t) THEN 12
  ELSE 0

Unblocked(S) == {combo \in S : combo \cap Range(blockers) = {}}

RECURSIVE UnblockedTotal(_)
UnblockedTotal(range) ==
  IF range = <<>> THEN 0
  ELSE Cardinality(Unblocked(ClaimedCombos(Head(range)))) + UnblockedTotal(Tail(range))

\* C16: with no blockers expandRange yields exactly 6 combos for a pocket
\* pair token (same rank, different suits), exactly 4 for a token ending in
\* 's' (both cards of one suit, one combo per suit) and exactly 12 for a
\* token ending in 'o' (all ordered pairs of different suits); with
\* blockers exactly the combos sharing no card with the blockers remain,
\* so no returned combo contains a blocker card.
C16_ExpandRange ==
  /\ Len(villainRange) = 1 =>
       /\ blockers = <<>> => Len(expandedRange) = ClaimedCount(villainRange[1])
       /\ Cardinality(ClaimedCombos(villainRange[1])) = ClaimedCount(villainRange[1])
       /\ {Range(expandedRange[k]) : k \in 1..Len(expandedRange)}
            = Unblocked(ClaimedCombos(villainRange[1]))
  /\ Len(expandedRange) = UnblockedTotal(villainRange)
  /\ \A k \in 1..Len(expandedRange) :
       /\ Len(expandedRange[k]) = 2
       /\ Range(expandedRange[k]) \cap Range(blockers) = {}

\* a pocket pair with one of its cards blocked: 3 of the 6 combos remain
C16_Witness ==
  /\ Len(villainRange) = 1
  /\ PocketPairToken(villainRange[1])
  /\ Len(blockers) = 1
  /\ blockers[1].rank = villainRange[1][1]
  /\ Len(expandedRange) = 3

(***************************************************************************)
(* Claims on the recommendation table                                      *)
(***************************************************************************)
Recommended == recommendation # NoRecommendation

\* fold < check < call < bet < raise
AggressivenessRank(action) ==
  CASE action = "fold" -> 0 [] action = "check" -> 1 [] action = "call" -> 2
    [] action = "bet" -> 3 [] action = "raise" -> 4

\* the tiers weak, medium, strong and monster by their lower edges
TierSamples == {s \in StrengthSamples : s >= 350}

\* C17: with texture, position, street and facingBet fixed, moving
\* handStrength from the weak tier up through medium and strong to monster
\* never lowers the aggressiveness rank of the recommended action, with
\* fold < check < call < bet < raise.
C17_Monotone ==
  Recommended =>
    \A s1, s2 \in TierSamples :
      s1 <= s2 =>
        AggressivenessRank(
          getPostflopRecommendation(s1, texture, position, street, facingBet).action)
        <= AggressivenessRank(
          getPostflopRecommendation(s2, texture, position, street, facingBet).action)

\* C18: the result carries a sizing (small, medium or large) if and only
\* if the action is bet or raise; check, call and fold have no sizing.
C18_Sizing ==
  Recommended =>
    /\ recommendation.action \in {"fold", "check", "call", "bet", "raise"}
    /\ recommendation.sizing \in {"small", "medium", "large"}
         <=> recommendation.action \in {"bet", "raise"}
    /\ recommendation.action \in {"fold", "check", "call"}
         => recommendation.sizing = NoSizing

\* a monster hand betting medium on a dry board
C18_Witness ==
  /\ Recommended
  /\ handStrength >= 1190
  /\ ~facingBet
  /\ texture.wetness <= 2400
  /\ recommendation.action = "bet"
  /\ recommendation.sizing = "medium"

(***************************************************************************)
(* Claims on the Monte Carlo equity                                        *)
(***************************************************************************)
Returned == pc = "done" /\ equityResult # EquityThrown

\* C14: every EquityResult returned by calculateEquityVsRandom or
\* calculateEquityVsRange, for any hero hand, board of 0 to 5 cards, range
\* and iteration count, has wins + ties + losses = samples, samples <=
\* requested iterations, equity = (wins + 0.5 * ties) / samples and
\* 0 <= equity <= 1.
C14_EquityResult ==
  Returned =>
    /\ equityResult.wins + equityResult.ties + equityResult.losses = equityResult.samples
    /\ equityResult.samples <= iterations
    /\ equityResult.equity.den # 0
    /\ equityResult.equity.num * equityResult.samples * 2
         = (2 * equityResult.wins + equityResult.ties) * equityResult.equity.den
    /\ 0 <= equityResult.equity.num
    /\ equityResult.equity.num <= equityResult.equity.den

\* C15: calculateEquityVsRange never signals an error for an unusable
\* range: when the range list is empty, when the expansion yields no combo
\* free of hero and board cards, or when no iteration produced a valid
\* sample, it returns the outcome of calculateEquityVsRandom for the same
\* hero hand, board and iteration count (samples = iterations, villain
\* hands drawn from the whole remaining deck).
C15_RangeFallback ==
  /\ entry = "calculateEquityVsRange" => equityResult # EquityThrown
  /\ /\ pc = "done"
     /\ entry = "calculateEquityVsRange"
     /\ \/ Len(villainRange) = 0
        \/ \A t \in 1..Len(villainRange) :
             \A c \in ClaimedCombos(villainRange[t]) : c \cap Range(knownCards) # {}
        \/ validSamples = 0
     => /\ running = "calculateEquityVsRandom"
        /\ equityResult.samples = iterations
        /\ equityResult.wins + equityResult.ties + equityResult.losses = iterations
        /\ iterations > 0 =>
             /\ Range(villainHand) \subseteq Range(remainingDeck)
             /\ Cardinality(Range(villainHand)) = 2

\* a range whose every combo is blocked, answered by a random villain hand
C15_Witness ==
  /\ pc = "done"
  /\ entry = "calculateEquityVsRange"
  /\ Len(villainRange) > 0
  /\ Len(expandedRange) = 0
  /\ iterations > 0
  /\ running = "calculateEquityVsRandom"
  /\ equityResult.samples = iterations

(***************************************************************************)
(* Claims on the made hand and on the order of the cards                   *)
(***************************************************************************)
\* a suit holding A, 2, 3, 4 and 5
HasSuitedWheel(S) ==
  \E s \in Range(SUITS) :
    \A r \in {"A", "2", "3", "4", "5"} : Card(r, s) \in S

\* C23: evaluateHand returns royal_flush only when the cards contain T, J,
\* Q, K and A of a single suit; five cards A-2-3-4-5 of one suit are
\* classified straight_flush with high card 5, never royal_flush.
C23_RoyalOnlyBroadway ==
  /\ evaluation.rank = "royal_flush" => HasRoyal(Range(AllCards))
  /\ (Len(AllCards) = 5 /\ HasSuitedWheel(Range(AllCards))) =>
       /\ evaluation.rank = "straight_flush"
       /\ evaluation.description = <<"Straight Flush", "5">>
       /\ evaluation.strength = Strength(95, 5, 4)

\* C24: for every input of 5 to 7 distinct cards madeHand consists of
\* exactly 5 pairwise distinct cards, all taken from holeCards and board,
\* and those 5 cards by themselves form a hand of the returned category.
C24_MadeHand ==
  Len(AllCards) \in 5..7 =>
    /\ Len(evaluation.madeHand) = 5
    /\ Cardinality(Range(evaluation.madeHand)) = 5
    /\ Range(evaluation.madeHand) \subseteq Range(AllCards)
    /\ CategoryOrder[FiveCardCategory(Range(evaluation.madeHand))] = evaluation.rank

\* a sequence back to front
SameValue(e1, e2) ==
  /\ e1.rank = e2.rank
  /\ e1.rankValue = e2.rankValue
  /\ e1.strength = e2.strength

\* C25: rank, rankValue and strength depend only on the set of cards in
\* holeCards plus board: reordering the cards within either argument, or
\* moving a card from one argument to the other, never changes them, and
\* evaluating the same pair twice yields identical results.
C25_OrderIndependent ==
  /\ SameValue(evaluation, evaluateHand(holeCards, board))
  /\ SameValue(evaluation, evaluateHand(Reversed(holeCards), Reversed(board)))
  /\ SameValue(evaluation, evaluateHand(<<>>, holeCards \o board))
  /\ SameValue(evaluation, evaluateHand(board, holeCards))

\* C26: getPostflopRecommendation returns only fold, call or raise when
\* facingBet is true and only check or bet when facingBet is false, for
\* every hand strength, texture, position and street, matching the buttons
\* the trainer offers in each situation.
C26_ActionsOffered ==
  Recommended =>
    /\ facingBet => recommendation.action \in {"fold", "call", "raise"}
    /\ ~facingBet => recommendation.action \in {"check", "bet"}
    /\ recommendation.action \in OfferedActions(facingBet)

\* a weak hand folding to a bet on a board without a flush or a straight
C26_Witness ==
  /\ Recommended
  /\ facingBet
  /\ handStrength = 350
  /\ recommendation.action = "fold"
  /\ Len(board) = 4

\* C27: in calculateEquityVsRange every combo of the expanded range is free
\* of hero and board cards, so the blocked check inside the loop never
\* skips an iteration: with a non-empty expanded range and iterations >= 1
\* the returned samples equals the requested iterations.
C27_NoSkippedIteration ==
  (entry = "calculateEquityVsRange" /\ pc # "idle") =>
    /\ \A k \in 1..Len(expandedRange) : ~villainBlocked(expandedRange[k], knownCards)
    /\ running = "calculateEquityVsRange" => validSamples = iter
    /\ (Returned /\ Len(expandedRange) > 0 /\ iterations >= 1) =>
         /\ running = "calculateEquityVsRange"
         /\ equityResult.samples = iterations

\* a returned call whose range lost some, but not all, of its combos to
\* the blockers
C27_Witness ==
  /\ Returned
  /\ entry = "calculateEquityVsRange"
  /\ running = "calculateEquityVsRange"
  /\ Len(expandedRange) \in 1..5
  /\ iterations >= 2
  /\ equityResult.samples = iterations

\* C22: in every Monte Carlo iteration of calculateEquityVsRandom and of
\* calculateEquityVsRange the villain's two cards and the runout cards are
\* pairwise distinct and disjoint from the hero and board cards, and the
\* completed board has exactly 5 cards.
C22_DistinctCards ==
  (pc \in {"loop", "done"} /\ iter > 0) =>
    /\ Len(villainHand) = 2
    /\ Len(runout) = cardsNeeded
    /\ Len(board \o runout) = 5
    /\ Cardinality(Range(holeCards \o board \o villainHand \o runout)) = 9
    /\ Range(villainHand \o runout) \cap Range(knownCards) = {}

\* an iteration against a range on a flop: two cards are run out
C22_Witness ==
  /\ pc = "loop"
  /\ iter > 0
  /\ running = "calculateEquityVsRange"
  /\ Len(board) = 3
  /\ Len(runout) = 2
  /\ villainHand[1].rank = "K"

\* an iteration against a random hand before the flop: five cards are run out
C22_WitnessRandom ==
  /\ pc = "loop"
  /\ iter > 0
  /\ entry = "calculateEquityVsRandom"
  /\ Len(board) = 0
  /\ Len(runout) = 5

\* C28: the two outputs of isCallProfitable agree: for every potSize >= 0,
\* betToCall >= 0 and equity in [0,1], profitable is true exactly when
\* ev > 0.
C28_OutputsAgree ==
  (callResult # NoCall /\ potSize >= 0 /\ betToCall >= 0) =>
    (callResult.profitable <=> callResult.ev.num > 0)

\* what the code does instead: a profitable call has a positive ev, but not
\* the other way round
C28_ProfitableHasPositiveEv ==
  (callResult # NoCall /\ potSize >= 0 /\ betToCall >= 0) =>
    (callResult.profitable => callResult.ev.num > 0)

(***************************************************************************)
(* Claims on shuffleDeck                                                   *)
(***************************************************************************)
RECURSIVE Factorial(_)
Factorial(n) == IF n <= 1 THEN 1 ELSE n * Factorial(n - 1)

\* the number of times a card occurs in a sequence
Occurrences(seq, c) == Cardinality({i \in 1..Len(seq) : seq[i] = c})

\* C21: the output of shuffleDeck holds exactly the cards of its input
\* (same length, same cards), and for a deck of n distinct cards the n!
\* sequences of index choices (j in 0..i for i = n-1 down to 1) produce n!
\* pairwise different orderings, so every permutation is produced by
\* exactly one choice sequence.
C21_Permutation ==
  /\ shufflePc # "idle" =>
       /\ Len(shuffledDeck) = Len(shuffleInput)
       /\ \A c \in Range(shuffleInput) \cup Range(shuffledDeck) :
            Occurrences(shuffledDeck, c) = Occurrences(shuffleInput, c)
  /\ shufflePc = "done" =>
       LET n == Len(shuffleInput)
           all == ChoicesFrom(n - 1, n)
       IN /\ shuffledDeck = shuffleDeck(shuffleInput, shuffleChoices)
          /\ shuffleChoices \in all
          /\ Cardinality(all) = Factorial(n)
          /\ Cardinality({shuffleDeck(shuffleInput, js) : js \in all}) = Factorial(n)
          /\ \A js \in all : shuffleDeck(shuffleInput, js) = shuffledDeck => js = shuffleChoices

\* a deck of four cards returned in reverse order
C21_Witness ==
  /\ shufflePc = "done"
  /\ Len(shuffleInput) = 4
  /\ shuffledDeck = Reversed(shuffleInput)

(***************************************************************************)
(* Claims on the postflop trainer                                          *)
(***************************************************************************)
\* C29: in the postflop trainer chips are conserved: after any sequence of
\* dealNewHand, hero actions and advanceStreet, heroStack + villainStack +
\* potSize equals 2000, the two starting stacks of 1000 chips.
C29_ChipsConserved ==
  scenario # NoScenario => heroStack + villainStack + potSize = 2000

\* the most the three amounts fall short of 2000: what holds instead is
\* that no chip is ever added
C29_NoChipAdded ==
  scenario # NoScenario => heroStack + villainStack + potSize <= 2000

\* the five community cards of a scenario, and the number shown on a street
Community(scen) == scen.flop \o <<scen.turn, scen.river>>

CardsShown(str) == IF str = "flop" THEN 3 ELSE IF str = "turn" THEN 4 ELSE 5

C30_StreetState ==
  /\ street \in {"flop", "turn", "river"}
  /\ scenario # NoScenario =>
       currentBoard(scenario, street) = SubSeq(Community(scenario), 1, CardsShown(street))

C30_StreetStep ==
  /\ street' # street =>
       \/ street = "flop" /\ street' = "turn"
       \/ street = "turn" /\ street' = "river"
       \/ street' = "flop"
  /\ (street' # street /\ street' # "flop") =>
       /\ scenario' = scenario
       /\ currentBoard(scenario', street') =
            Append(currentBoard(scenario, street), Community(scenario)[CardsShown(street')])
  /\ scenario' # scenario => street' = "flop"
  /\ dealtBy' # dealtBy =>
       /\ street' = "flop"
       /\ dealtBy' = "advanceStreet" => street = "river"

\* C30: in the postflop trainer the street only ever moves flop -> turn ->
\* river within one dealt scenario and is never 'preflop'; advanceStreet on
\* the river (and dealNewHand at any time) deals a fresh scenario and
\* returns to flop; the board shown is the first 3, 4 and 5 community cards
\* of the same scenario, so each street's board extends the previous one.
C30_Streets == []C30_StreetState /\ [][C30_StreetStep]_vars

\* a flop dealt by advanceStreet, after decisions on the three streets of
\* the hand before
C30_Witness ==
  /\ dealtBy = "advanceStreet"
  /\ street = "flop"
  /\ stats.total = 3
  /\ currentBoard(scenario, street) = scenario.flop

\* a river of five cards reached from the flop of the same scenario
C30_WitnessRiver ==
  /\ street = "river"
  /\ showAnalysis
  /\ Len(currentBoard(scenario, street)) = 5

====
